---- MODULE Spec2Model ----
(***************************************************************************)
(* MirTech API (src/api/main.py): the Redis read-through cache in front of *)
(* the relational queries.  Strings are sequences of one-character strings *)
(* so that key derivation, JSON canonicalisation and the substring test of *)
(* set_to_cache are computed, not assumed.                                 *)
(***************************************************************************)
EXTENDS Integers, Sequences, FiniteSets, TLC

(***************************************************************************)
(* Characters and strings                                                  *)
(***************************************************************************)

\* printable ASCII, code 32 .. 126, in code order (codes 92 and 96 are written BACKSLASH, BACKTICK)
AsciiChars == <<" ","!","\"","#","<<",">>%","&","'","(",")","*","+",",","-",".","/","0","1","2","3","4","5","6","7","8","9",":",";","<","=",">","?","@","A","B","C","D","E","F","G","H","I","J","K","L","M","N","O","P","Q","R","S","T","U","V","W","X","Y","Z","[","BACKSLASH","]","^","_","BACKTICK","a","b","c","d","e","f","g","h","i","j","k","l","m","n","o","p","q","r","s","t","u","v","w","x","y","z","{","|","}","~">>

\* code point of a character (str.encode() of ASCII text, one byte each)
Ord == [c \in {AsciiChars[i] : i \in 1..Len(AsciiChars)} |->
          31 + (CHOOSE i \in 1..Len(AsciiChars) : AsciiChars[i] = c)]

HexChars == <<"0","1","2","3","4","5","6","7","8","9","a","b","c","d","e","f">>

DecChars == <<"0","1","2","3","4","5","6","7","8","9">>

RECURSIVE Concat(_)
\* "".join(parts)
Concat(parts) ==
    IF parts = <<>> THEN <<>> ELSE Head(parts) \o Concat(Tail(parts))

\* Python's (needle in haystack) on strings
Contains(haystack, needle) ==
    \E i \in 0..(Len(haystack) - Len(needle)) :
        \A j \in 1..Len(needle) : haystack[i + j] = needle[j]

RECURSIVE StrLess(_, _)
\* Python's a < b on strings: lexicographic by code point
StrLess(a, b) ==
    IF b = <<>> THEN FALSE
    ELSE IF a = <<>> THEN TRUE
    ELSE IF Head(a) = Head(b) THEN StrLess(Tail(a), Tail(b))
    ELSE Ord[Head(a)] < Ord[Head(b)]

RECURSIVE NatStr(_)
\* str(n) for n >= 0
NatStr(n) ==
    IF n < 10 THEN <<DecChars[n + 1]>>
    ELSE NatStr(n \div 10) \o <<DecChars[(n % 10) + 1]>>

\* str(n) for an int
IntStr(n) == IF n < 0 THEN <<"-">> \o NatStr(-n) ELSE NatStr(n)

\* repr(x) of a float held in tenths (x = tenths / 10, one decimal digit)
FloatStr(tenths) ==
    LET a == IF tenths < 0 THEN -tenths ELSE tenths
    IN  (IF tenths < 0 THEN <<"-">> ELSE <<>>)
        \o NatStr(a \div 10) \o <<".">> \o NatStr(a % 10)

(***************************************************************************)
(* Request parameter values: None, int, float, str, bool, UUID.            *)
(***************************************************************************)

None == [t |-> "none", v |-> 0]

IntV(n) == [t |-> "int", v |-> n]

FloatV(tenths) == [t |-> "float", v |-> tenths]

StrV(s) == [t |-> "str", v |-> s]

BoolV(b) == [t |-> "bool", v |-> IF b THEN 1 ELSE 0]

UuidV(n) == [t |-> "uuid", v |-> n]

\* str(uuid)
UuidStr(n) == <<"u","u","i","d","-">> \o NatStr(n)

\* Python truthiness of a parameter value (if period:, if category:)
Truthy(x) ==
    CASE x.t = "none" -> FALSE
      [] x.t = "str" -> x.v # <<>>
      [] x.t = "uuid" -> TRUE
      [] OTHER -> x.v # 0

(***************************************************************************)
(* json.dumps(params, sort_keys=True, default=str)                         *)
(***************************************************************************)

\* a JSON string literal: quotes and backslashes escaped
JsonEscape(s) ==
    Concat([i \in 1..Len(s) |->
              IF s[i] = "\"" \/ s[i] = "BACKSLASH" THEN <<"BACKSLASH", s[i]>> ELSE <<s[i]>>])

\* mutant of JsonStr: the text without its quotes
JsonStr_bare(s) == JsonEscape(s)

\* a str as JSON text
JsonStr(s) == <<"\"">> \o JsonEscape(s) \o <<"\"">>

\* one parameter value as JSON text (a UUID goes through default=str)
JsonValue(x) ==
    CASE x.t = "none" -> <<"n","u","l","l">>
      [] x.t = "int" -> IntStr(x.v)
      [] x.t = "float" -> FloatStr(x.v)
      [] x.t = "bool" -> IF x.v = 1 THEN <<"t","r","u","e">> ELSE <<"f","a","l","s","e">>
      [] x.t = "str" -> JsonStr(x.v)
      [] x.t = "uuid" -> JsonStr(UuidStr(x.v))

RECURSIVE InsertByName(_, _)
\* insert one (name, value) pair into a list sorted by name
InsertByName(pair, sorted) ==
    IF sorted = <<>> THEN <<pair>>
    ELSE IF StrLess(pair.name, Head(sorted).name) THEN <<pair>> \o sorted
    ELSE <<Head(sorted)>> \o InsertByName(pair, Tail(sorted))

RECURSIVE SortByName(_)
\* sort_keys=True: the items of the dict ordered by key
SortByName(params) ==
    IF params = <<>> THEN <<>>
    ELSE InsertByName(Head(params), SortByName(Tail(params)))

RECURSIVE JsonItems(_)
\* the items of a dict as JSON text, in the order given, ", " between items
JsonItems(params) ==
    IF params = <<>> THEN <<>>
    ELSE JsonStr(Head(params).name) \o <<":", " ">> \o JsonValue(Head(params).val)
         \o (IF Tail(params) = <<>> THEN <<>> ELSE <<",", " ">> \o JsonItems(Tail(params)))

\* json.dumps(params, sort_keys=True, default=str); params is the keyword
\* dict in call-site (insertion) order, a sequence of [name, val] records
json_dumps_params(params) == <<"{">> \o JsonItems(SortByName(params)) \o <<"}">>

(***************************************************************************)
(* hashlib.md5(...).hexdigest(): 32 lower-case hexadecimal digits computed *)
(* from the bytes of the text.  MD5 itself is replaced by two tree hashes  *)
(* over the bytes, spread over eight groups of four digits; what the       *)
(* handlers rely on is kept: the digest is a deterministic function of the *)
(* bytes, it is 32 hex digits long, and texts that differ get digests that *)
(* differ (checked for the requests of the model by KeysDistinct).         *)
(***************************************************************************)

LaneMod == 46337

RECURSIVE Lane(_, _, _, _)
\* the tree hash of the bytes s[lo..hi] with multiplier m
Lane(s, lo, hi, m) ==
    IF lo > hi THEN m
    ELSE IF lo = hi THEN (Ord[s[lo]] * m + lo) % LaneMod
    ELSE LET mid == (lo + hi) \div 2
         IN  (Lane(s, lo, mid, m) * m + Lane(s, mid + 1, hi, m) * 7 + 1) % LaneMod

Hex4(n) == << HexChars[((n \div 4096) % 16) + 1], HexChars[((n \div 256) % 16) + 1],
              HexChars[((n \div 16) % 16) + 1], HexChars[(n % 16) + 1] >>

md5_hexdigest(s) ==
    LET a == Lane(s, 1, Len(s), 31)
        b == Lane(s, 1, Len(s), 61)
    IN  Concat([i \in 1..8 |->
                  Hex4(IF i % 2 = 1 THEN (a * (i + 2) + b) % LaneMod
                       ELSE (b * (i + 3) + a) % LaneMod)])

\* mutant of get_cache_key: the dict is serialised in insertion order
get_cache_key_unsorted(endpoint, params) ==
    endpoint \o <<":">> \o md5_hexdigest(<<"{">> \o JsonItems(params) \o <<"}">>)

\* mutant of get_cache_key: the serialised parameters are not hashed
get_cache_key_plain(endpoint, params) ==
    endpoint \o <<":">> \o json_dumps_params(params)

\* def get_cache_key(endpoint, **params)
get_cache_key(endpoint, params) ==
    endpoint \o <<":">> \o md5_hexdigest(json_dumps_params(params))

(***************************************************************************)
(* State                                                                   *)
(***************************************************************************)

VARIABLES
    now,            \* the clock, in seconds since process start
    store,          \* Redis: key -> [text, ttl, exp]
    products,       \* the products table, in row order
    next_product_id,\* the next uuid4 of a created product
    req,            \* slot -> the request handler running in it
    started,        \* requests started so far
    mutations,      \* product writes committed so far
    workload,       \* what this run's clients send
    kd,             \* a key derivation on its own (KeySpec)
    call,           \* a set_to_cache call on its own (CallSpec)
    resp,           \* the response to the last product write
    pre             \* the process: its startup hook and its preload task

vars == <<now, store, products, next_product_id, req, started, mutations, workload, kd, call, resp, pre>>

(***************************************************************************)
(* The source of truth.  Money, prices and ratings are held in tenths,     *)
(* datetimes in seconds relative to process start (negative: before it).   *)
(***************************************************************************)

SecondsPerDay == 24 * 3600

\* SQL NULL in a numeric column
SqlNull == 0 - 1

\* the table fact_sales (class FactSales): the columns the filters and the
\* aggregates read; it is written by the loader only, never by the API
FactSales == <<
    [fact_id |-> 1, user_id |-> 1, user_email |-> <<"a","@","x",".","i","o">>,
     product_name |-> <<"b","o","o","t">>, product_category |-> <<"s","h","o","e","s">>, product_price |-> 500,
     order_id |-> 1, order_total_amount |-> 1000, order_status |-> <<"c","o","m","p","l","e","t","e","d">>,
     order_created_at |-> 0 - (6 * SecondsPerDay + 43200),
     order_item_quantity |-> 2, transaction_id |-> 1,
     transaction_payment_method |-> <<"c","a","r","d">>, transaction_status |-> <<"s","u","c","c","e","s","s">>,
     transaction_timestamp |-> 0 - (6 * SecondsPerDay + 43200)],
    [fact_id |-> 2, user_id |-> 2, user_email |-> <<"o","@","y",".","i","o">>,
     product_name |-> <<"c","a","p">>, product_category |-> <<"h","a","t","s">>, product_price |-> 150,
     order_id |-> 2, order_total_amount |-> 300, order_status |-> <<"p","e","n","d","i","n","g">>,
     order_created_at |-> 0 - 100 * SecondsPerDay,
     order_item_quantity |-> 1, transaction_id |-> 2,
     transaction_payment_method |-> <<"p","a","y","p","a","l">>, transaction_status |-> <<"f","a","i","l","e","d">>,
     transaction_timestamp |-> 0 - 100 * SecondsPerDay],
    [fact_id |-> 3, user_id |-> 1, user_email |-> <<"a","@","x",".","i","o">>,
     product_name |-> <<"b","o","o","t">>, product_category |-> <<"s","h","o","e","s">>, product_price |-> 500,
     order_id |-> 3, order_total_amount |-> 500, order_status |-> <<"c","o","m","p","l","e","t","e","d">>,
     order_created_at |-> 0 - 300 * SecondsPerDay,
     order_item_quantity |-> 1, transaction_id |-> 3,
     transaction_payment_method |-> <<"c","a","r","d">>, transaction_status |-> <<"s","u","c","c","e","s","s">>,
     transaction_timestamp |-> 0 - 300 * SecondsPerDay] >>

\* the table users (class User)
\* the fact_sales table of this run: the loader's rows, or no row when the
\* loader has not run
fact_sales == IF workload.seeded THEN FactSales ELSE <<>>

Users == <<
    [user_id |-> 1, name |-> <<"a","n","n","a">>, email |-> <<"a","@","x",".","i","o">>, phone |-> <<"5","5","5">>,
     created_at |-> 0 - 400 * SecondsPerDay],
    [user_id |-> 2, name |-> <<"o","m","a","r">>, email |-> <<"o","@","y",".","i","o">>, phone |-> <<"7","7","7">>,
     created_at |-> 0 - 200 * SecondsPerDay] >>

\* the table orders (class Order)
Orders == <<
    [order_id |-> 1, user_id |-> 1, total_amount |-> 1000, status |-> <<"c","o","m","p","l","e","t","e","d">>,
     created_at |-> 0 - (6 * SecondsPerDay + 43200)],
    [order_id |-> 2, user_id |-> 2, total_amount |-> 300, status |-> <<"p","e","n","d","i","n","g">>,
     created_at |-> 0 - 100 * SecondsPerDay] >>

\* the table transactions (class Transaction)
Transactions == <<
    [transaction_id |-> 1, order_id |-> 1, amount |-> 1000, payment_method |-> <<"c","a","r","d">>,
     status |-> <<"s","u","c","c","e","s","s">>, timestamp |-> 0 - (6 * SecondsPerDay + 43200)],
    [transaction_id |-> 2, order_id |-> 2, amount |-> 300, payment_method |-> <<"p","a","y","p","a","l">>,
     status |-> <<"f","a","i","l","e","d">>, timestamp |-> 0 - 100 * SecondsPerDay] >>

\* the table products (class Product) as the loader leaves it
InitialProducts == <<
    [product_id |-> 1, name |-> <<"b","o","o","t">>, category |-> <<"s","h","o","e","s">>, price |-> 500,
     stock |-> 12, rating |-> 45] >>

(***************************************************************************)
(* Values of a dumped row (model_dump) and their JSON form.                *)
(***************************************************************************)

DecimalV(tenths) == [t |-> "decimal", v |-> tenths]

DatetimeV(ts) == [t |-> "datetime", v |-> ts]

\* str(datetime): date and time separated by a blank
DatetimeStr(ts) == <<"d"," ">> \o IntStr(ts)

\* datetime.isoformat(): date and time separated by T
isoformat(ts) == <<"d","T">> \o IntStr(ts)

\* json.dumps(..., default=str) on one value: what json cannot encode
\* (UUID, Decimal, datetime) goes through str()
JsonOf(x) ==
    CASE x.t = "uuid" -> StrV(UuidStr(x.v))
      [] x.t = "decimal" -> StrV(FloatStr(x.v))
      [] x.t = "datetime" -> StrV(DatetimeStr(x.v))
      [] OTHER -> x

\* a dumped row (a dict of values) as JSON
JsonRow(row) == [f \in DOMAIN row |-> JsonOf(row[f])]

\* json.dumps(data, default=str) of a list of dumped rows
JsonList(rows) == [i \in 1..Len(rows) |-> JsonRow(rows[i])]

\* FactSalesSchema.model_validate(fs).model_dump()
FactSalesDump(fs) ==
    [fact_id |-> UuidV(fs.fact_id), user_id |-> UuidV(fs.user_id),
     user_email |-> StrV(fs.user_email), product_name |-> StrV(fs.product_name),
     product_category |-> StrV(fs.product_category),
     product_price |-> DecimalV(fs.product_price),
     order_id |-> UuidV(fs.order_id),
     order_total_amount |-> DecimalV(fs.order_total_amount),
     order_status |-> StrV(fs.order_status),
     order_created_at |-> DatetimeV(fs.order_created_at),
     order_item_quantity |-> IntV(fs.order_item_quantity),
     transaction_id |-> UuidV(fs.transaction_id),
     transaction_payment_method |-> StrV(fs.transaction_payment_method),
     transaction_status |-> StrV(fs.transaction_status),
     transaction_timestamp |-> DatetimeV(fs.transaction_timestamp)]

\* UserSchema.model_validate(u).model_dump()
UserDump(u) ==
    [user_id |-> UuidV(u.user_id), name |-> StrV(u.name), email |-> StrV(u.email),
     phone |-> StrV(u.phone), created_at |-> DatetimeV(u.created_at)]

\* OrderSchema.model_validate(o).model_dump()
OrderDump(o) ==
    [order_id |-> UuidV(o.order_id), user_id |-> UuidV(o.user_id),
     total_amount |-> DecimalV(o.total_amount), status |-> StrV(o.status),
     created_at |-> DatetimeV(o.created_at)]

\* TransactionSchema.model_validate(t).model_dump()
TransactionDump(t) ==
    [transaction_id |-> UuidV(t.transaction_id), order_id |-> UuidV(t.order_id),
     amount |-> DecimalV(t.amount), payment_method |-> StrV(t.payment_method),
     status |-> StrV(t.status), timestamp |-> DatetimeV(t.timestamp)]

\* ProductSchema's field constraints: price ge=1, stock ge=1, rating ge=0.5
\* (rating may be None); model_validate raises ValidationError otherwise
ProductSchemaValid(p) ==
    /\ p.price >= 10
    /\ p.stock >= 1
    /\ (p.rating = SqlNull \/ p.rating >= 5)

\* ProductSchema.model_validate(p).model_dump()
ProductDump(p) ==
    [product_id |-> UuidV(p.product_id), name |-> StrV(p.name),
     category |-> StrV(p.category), price |-> DecimalV(p.price),
     stock |-> IntV(p.stock),
     rating |-> IF p.rating = SqlNull THEN None ELSE DecimalV(p.rating)]

(***************************************************************************)
(* Query helpers                                                           *)
(***************************************************************************)

\* periods_map of get_all_item: token -> timedelta(days=...)
periods_map ==
    (<<"w","e","e","k">> :> 7) @@ (<<"2","w","e","e","k","s">> :> 14) @@ (<<"m","o","n","t","h">> :> 30) @@ (<<"3","m","o","n","t","h","s">> :> 90)
    @@ (<<"6","m","o","n","t","h","s">> :> 180) @@ (<<"9","m","o","n","t","h","s">> :> 270) @@ (<<"1","y","e","a","r">> :> 365)

\* periods_map of search_products_sales
search_periods_map ==
    (<<"w","e","e","k">> :> 7) @@ (<<"2","w","e","e","k","s">> :> 14) @@ (<<"m","o","n","t","h">> :> 30) @@ (<<"3","m","o","n","t","h","s">> :> 90)
    @@ (<<"6","m","o","n","t","h","s">> :> 180) @@ (<<"9","m","o","n","t","h","s">> :> 270) @@ (<<"1","y","e","a","r">> :> 365)

\* periods_map of get_chart_stats
chart_periods_map ==
    (<<"w","e","e","k">> :> 7) @@ (<<"2","w","e","e","k","s">> :> 14) @@ (<<"m","o","n","t","h">> :> 30) @@ (<<"3","m","o","n","t","h","s">> :> 90)
    @@ (<<"6","m","o","n","t","h","s">> :> 180) @@ (<<"9","m","o","n","t","h","s">> :> 270) @@ (<<"1","y","e","a","r">> :> 365)

\* periods of get_summary_stats
periods ==
    (<<"w","e","e","k">> :> 7) @@ (<<"2","w","e","e","k","s">> :> 14) @@ (<<"m","o","n","t","h">> :> 30) @@ (<<"3","m","o","n","t","h","s">> :> 90)
    @@ (<<"6","m","o","n","t","h","s">> :> 180) @@ (<<"9","m","o","n","t","h","s">> :> 270) @@ (<<"1","y","e","a","r">> :> 365)

\* mutant of preload_periods_map: half a year counted as 183 days
preload_periods_map_183 ==
    (<<"6","m","o","n","t","h","s">> :> 183) @@ (<<"9","m","o","n","t","h","s">> :> 270) @@ (<<"1","y","e","a","r">> :> 365)

\* periods_map of preload_cache
preload_periods_map ==
    (<<"6","m","o","n","t","h","s">> :> 180) @@ (<<"9","m","o","n","t","h","s">> :> 270) @@ (<<"1","y","e","a","r">> :> 365)

\* the period tokens in the order the dict literal lists them
PeriodTokens == << <<"w","e","e","k">>, <<"2","w","e","e","k","s">>, <<"m","o","n","t","h">>, <<"3","m","o","n","t","h","s">>, <<"6","m","o","n","t","h","s">>, <<"9","m","o","n","t","h","s">>, <<"1","y","e","a","r">> >>

LongPeriods == { <<"6","m","o","n","t","h","s">>, <<"9","m","o","n","t","h","s">>, <<"1","y","e","a","r">> }

MediumPeriods == { <<"m","o","n","t","h">>, <<"3","m","o","n","t","h","s">> }

ShortPeriods == { <<"w","e","e","k">>, <<"2","w","e","e","k","s">> }

\* period in periods_map, for an Optional[str] parameter
InPeriodsMap(period) == period.t = "str" /\ period.v \in DOMAIN periods_map

\* period in <map>, for the maps of the other handlers
InMap(period, map) == period.t = "str" /\ period.v \in DOMAIN map

Min(a, b) == IF a < b THEN a ELSE b

\* mutant of ClampLimit: the limit is used as it was sent
ClampLimit_asSent(limit) == limit

\* limit = min(limit, 10000)
ClampLimit(limit) == Min(limit, 10000)

LowerChar(c) ==
    IF Ord[c] >= 65 /\ Ord[c] <= 90 THEN AsciiChars[Ord[c] + 32 - 31] ELSE c

Lower(s) == [i \in 1..Len(s) |-> LowerChar(s[i])]

\* column.ilike(f"%{pattern}%") for a pattern without SQL wildcards
ILike(value, pattern) == Contains(Lower(value), Lower(pattern))

\* query.offset(skip).limit(limit).all()
OffsetLimit(rows, skip, limit) ==
    IF skip >= Len(rows) THEN <<>>
    ELSE SubSeq(rows, skip + 1, Min(Len(rows), skip + limit))

RECURSIVE ParseNat(_, _)
\* the digits of s read as a number; -1 when s holds anything else
ParseNat(s, acc) ==
    IF s = <<>> THEN acc
    ELSE IF \E d \in 1..10 : DecChars[d] = Head(s)
         THEN ParseNat(Tail(s), acc * 10 + (CHOOSE d \in 0..9 : DecChars[d + 1] = Head(s)))
         ELSE 0 - 1

\* datetime.fromisoformat(text): [ok, ts]; ok = FALSE stands for ValueError
fromisoformat(s) ==
    IF Len(s) >= 3 /\ s[1] = "d" /\ s[2] \in {"T", " "}
    THEN LET body == SubSeq(s, 3, Len(s))
             neg == body[1] = "-"
             digits == IF neg THEN Tail(body) ELSE body
             n == IF digits = <<>> THEN 0 - 1 ELSE ParseNat(digits, 0)
         IN  IF n < 0 THEN [ok |-> FALSE, ts |-> 0]
             ELSE [ok |-> TRUE, ts |-> IF neg THEN 0 - n ELSE n]
    ELSE [ok |-> FALSE, ts |-> 0]

RECURSIVE SumSeq(_)
\* func.sum(column) over the column's values
SumSeq(values) ==
    IF values = <<>> THEN 0 ELSE Head(values) + SumSeq(Tail(values))

\* func.count(func.distinct(column)) over the column's values
CountDistinct(values) == Cardinality({values[i] : i \in 1..Len(values)})

RECURSIVE SortedInts(_)
\* the members of a finite set of integers in increasing order
SortedInts(S) ==
    IF S = {} THEN <<>>
    ELSE LET m == CHOOSE x \in S : \A y \in S : x <= y
         IN  <<m>> \o SortedInts(S \ {m})

\* func.date(column): the day a timestamp falls in
DateOf(ts) == ts \div SecondsPerDay

\* str(date)
DateStr(d) == <<"d","a","t","e"," ">> \o IntStr(d)

\* the payloads the handlers build: a list of dumped rows, the chart dict,
\* the summary dict of one period, the summary dict of all periods
ListPayload(items) == [kind |-> "list", items |-> items, value |-> <<>>]

DictPayload(value) == [kind |-> "dict", items |-> <<>>, value |-> value]

StatsPayload(value) == [kind |-> "stats", items |-> <<>>, value |-> value]

AllStatsPayload(value) == [kind |-> "allstats", items |-> <<>>, value |-> value]

\* Python truthiness of a decoded payload (if cached_data:)
PayloadTruthy(data) ==
    IF data.kind = "list" THEN data.items # <<>> ELSE DOMAIN data.value # {}

\* jsonable_encoder on one value, applied to what a route without a
\* response_model returns: a Decimal becomes a number, UUID and datetime
\* become strings
jsonable_encoder(x) ==
    CASE x.t = "uuid" -> StrV(UuidStr(x.v))
      [] x.t = "decimal" -> FloatV(x.v)
      [] x.t = "datetime" -> StrV(isoformat(x.v))
      [] OTHER -> x

\* the kind of a JSON value
JsonKind(x) ==
    CASE x.t \in {"int", "float"} -> StrV(<<"n", "u", "m", "b", "e", "r">>)
      [] x.t = "str" -> StrV(<<"s", "t", "r", "i", "n", "g">>)
      [] x.t = "bool" -> StrV(<<"b", "o", "o", "l", "e", "a", "n">>)
      [] x.t = "none" -> StrV(<<"n", "u", "l", "l">>)

\* the kind of a field serialised through a response_model: what the schema
\* declares as UUID, Decimal or datetime is sent as a string, whether the
\* handler returned the value or its string
response_field_kind(x) ==
    IF x.t \in {"uuid", "decimal", "datetime"}
    THEN StrV(<<"s", "t", "r", "i", "n", "g">>)
    ELSE JsonKind(x)

\* one value encoded for the store (json.dumps, default=str), for the
\* response of a route without response_model (jsonable_encoder), or
\* reduced to its kind
Encode(x, via) ==
    CASE via = "dumps" -> JsonOf(x)
      [] via = "encoder" -> jsonable_encoder(x)
      [] via = "model" -> response_field_kind(x)
      [] via = "kind" -> JsonKind(x)

\* a dict of values, encoded value by value
EncodeDict(d, via) == [f \in DOMAIN d |-> Encode(d[f], via)]

\* the chart dict, encoded
EncodeChart(c, via) ==
    [period |-> Encode(c.period, via),
     revenue_by_day |->
        [i \in 1..Len(c.revenue_by_day) |-> EncodeDict(c.revenue_by_day[i], via)],
     transactions_by_day |->
        [i \in 1..Len(c.transactions_by_day) |->
            EncodeDict(c.transactions_by_day[i], via)],
     payment_methods |-> EncodeDict(c.payment_methods, via),
     order_statuses |-> EncodeDict(c.order_statuses, via),
     transaction_statuses |-> EncodeDict(c.transaction_statuses, via)]

\* the summary dict of one period, encoded
EncodeStats(st, via) ==
    [f \in DOMAIN st |->
        IF f = "changes" THEN EncodeDict(st[f], via) ELSE Encode(st[f], via)]

\* a payload, encoded value by value
EncodePayload(data, via) ==
    CASE data.kind = "list" ->
            ListPayload([i \in 1..Len(data.items) |-> EncodeDict(data.items[i], via)])
      [] data.kind = "dict" -> DictPayload(EncodeChart(data.value, via))
      [] data.kind = "stats" -> StatsPayload(EncodeStats(data.value, via))
      [] data.kind = "allstats" ->
            AllStatsPayload([p \in DOMAIN data.value |->
                                EncodeStats(data.value[p], via)])

\* json.dumps(data, default=str): the stored text, held as its JSON tree
json_dumps(data) ==
    IF data.kind = "list" THEN ListPayload(JsonList(data.items))
    ELSE EncodePayload(data, "dumps")

\* json.loads(text): the tree the text denotes
json_loads(text) == text
(***************************************************************************)
(* The cached read endpoints: for each handler its key, its query against  *)
(* the source of truth and the expire argument it passes to set_to_cache.  *)
(* q is the record of the handler's parameters after FastAPI parsed them.  *)
(***************************************************************************)

KV(name, val) == [name |-> name, val |-> val]

\* start_date = now - periods_map[period]
StartDate(t, days) == t - days * SecondsPerDay

\* ---- GET /all ----------------------------------------------------------

get_all_item_key(q) ==
    get_cache_key(<<"f","a","c","t","_","s","a","l","e","s">>, <<
        KV(<<"p","r","o","d","u","c","t","_","c","a","t","e","g","o","r","y">>, q.product_category),
        KV(<<"o","r","d","e","r","_","s","t","a","t","u","s">>, q.order_status),
        KV(<<"t","r","a","n","s","a","c","t","i","o","n","_","s","t","a","t","u","s">>, q.transaction_status),
        KV(<<"p","a","y","m","e","n","t","_","m","e","t","h","o","d">>, q.payment_method),
        KV(<<"u","s","e","r","_","e","m","a","i","l">>, q.user_email),
        KV(<<"m","i","n","_","p","r","i","c","e">>, q.min_price),
        KV(<<"m","a","x","_","p","r","i","c","e">>, q.max_price),
        KV(<<"m","i","n","_","q","u","a","n","t","i","t","y">>, q.min_quantity),
        KV(<<"p","e","r","i","o","d">>, q.period),
        KV(<<"f","r","o","m","_","d","a","t","e">>, q.from_date),
        KV(<<"s","k","i","p">>, q.skip),
        KV(<<"l","i","m","i","t">>, IntV(ClampLimit(q.limit.v))) >>)

\* mutant of get_all_item_filter: a from_date that does not parse matches no
\* row
get_all_item_filter_strict(fs, q, t) ==
    /\ IF Truthy(q.period)
       THEN InPeriodsMap(q.period)
                => fs.order_created_at >= StartDate(t, periods_map[q.period.v])
       ELSE IF Truthy(q.from_date)
       THEN LET d == fromisoformat(q.from_date.v)
            IN  d.ok /\ fs.order_created_at >= d.ts
       ELSE TRUE
    /\ Truthy(q.product_category) => ILike(fs.product_category, q.product_category.v)
    /\ Truthy(q.order_status) => fs.order_status = q.order_status.v
    /\ Truthy(q.transaction_status) => fs.transaction_status = q.transaction_status.v
    /\ Truthy(q.payment_method) => fs.transaction_payment_method = q.payment_method.v
    /\ Truthy(q.user_email) => ILike(fs.user_email, q.user_email.v)
    /\ q.min_price.t # "none" => fs.product_price >= q.min_price.v
    /\ q.max_price.t # "none" => fs.product_price <= q.max_price.v
    /\ q.min_quantity.t # "none" => fs.order_item_quantity >= q.min_quantity.v

\* the filters of get_all_item, applied to one row
get_all_item_filter(fs, q, t) ==
    /\ IF Truthy(q.period)
       THEN InPeriodsMap(q.period)
                => fs.order_created_at >= StartDate(t, periods_map[q.period.v])
       ELSE IF Truthy(q.from_date)
       THEN LET d == fromisoformat(q.from_date.v)
            IN  d.ok => fs.order_created_at >= d.ts
       ELSE TRUE
    /\ Truthy(q.product_category) => ILike(fs.product_category, q.product_category.v)
    /\ Truthy(q.order_status) => fs.order_status = q.order_status.v
    /\ Truthy(q.transaction_status) => fs.transaction_status = q.transaction_status.v
    /\ Truthy(q.payment_method) => fs.transaction_payment_method = q.payment_method.v
    /\ Truthy(q.user_email) => ILike(fs.user_email, q.user_email.v)
    /\ q.min_price.t # "none" => fs.product_price >= q.min_price.v
    /\ q.max_price.t # "none" => fs.product_price <= q.max_price.v
    /\ q.min_quantity.t # "none" => fs.order_item_quantity >= q.min_quantity.v

get_all_item_query(q, t) ==
    OffsetLimit(SelectSeq(fact_sales, LAMBDA fs : get_all_item_filter(fs, q, t)),
                q.skip.v, ClampLimit(q.limit.v))

\* ---- GET /products/search ----------------------------------------------

search_products_sales_key(q) ==
    get_cache_key(<<"p","r","o","d","u","c","t","_","s","e","a","r","c","h">>, <<
        KV(<<"q","u","e","r","y">>, q.query),
        KV(<<"p","e","r","i","o","d">>, q.period),
        KV(<<"s","k","i","p">>, q.skip),
        KV(<<"l","i","m","i","t">>, IntV(ClampLimit(q.limit.v))) >>)

search_products_sales_filter(fs, q, t) ==
    /\ ILike(fs.product_name, q.query.v)
    /\ (Truthy(q.period) /\ InMap(q.period, search_periods_map))
           => fs.order_created_at >= StartDate(t, search_periods_map[q.period.v])

search_products_sales_query(q, t) ==
    OffsetLimit(SelectSeq(fact_sales, LAMBDA fs : search_products_sales_filter(fs, q, t)),
                q.skip.v, ClampLimit(q.limit.v))

\* ---- GET /products -----------------------------------------------------

get_all_products_key(q) ==
    get_cache_key(<<"p","r","o","d","u","c","t","s">>, <<
        KV(<<"c","a","t","e","g","o","r","y">>, q.category),
        KV(<<"n","a","m","e">>, q.name),
        KV(<<"m","i","n","_","p","r","i","c","e">>, q.min_price),
        KV(<<"m","a","x","_","p","r","i","c","e">>, q.max_price),
        KV(<<"m","i","n","_","r","a","t","i","n","g">>, q.min_rating),
        KV(<<"i","n","_","s","t","o","c","k">>, q.in_stock),
        KV(<<"s","k","i","p">>, q.skip),
        KV(<<"l","i","m","i","t">>, q.limit) >>)

get_all_products_filter(p, q) ==
    /\ Truthy(q.category) => ILike(p.category, q.category.v)
    /\ Truthy(q.name) => ILike(p.name, q.name.v)
    /\ q.min_price.t # "none" => p.price >= q.min_price.v
    /\ q.max_price.t # "none" => p.price <= q.max_price.v
    /\ q.min_rating.t # "none" => (p.rating # SqlNull /\ p.rating >= q.min_rating.v)
    /\ q.in_stock.t # "none" => IF q.in_stock.v = 1 THEN p.stock > 0 ELSE p.stock = 0

get_all_products_query(q, table) ==
    OffsetLimit(SelectSeq(table, LAMBDA p : get_all_products_filter(p, q)),
                q.skip.v, q.limit.v)

\* ---- GET /users --------------------------------------------------------

get_all_users_key(q) ==
    get_cache_key(<<"u","s","e","r","s">>, <<
        KV(<<"n","a","m","e">>, q.name),
        KV(<<"e","m","a","i","l">>, q.email),
        KV(<<"p","h","o","n","e">>, q.phone),
        KV(<<"s","k","i","p">>, q.skip),
        KV(<<"l","i","m","i","t">>, q.limit) >>)

get_all_users_filter(u, q) ==
    /\ Truthy(q.name) => ILike(u.name, q.name.v)
    /\ Truthy(q.email) => ILike(u.email, q.email.v)
    /\ Truthy(q.phone) => ILike(u.phone, q.phone.v)

get_all_users_query(q) ==
    OffsetLimit(SelectSeq(Users, LAMBDA u : get_all_users_filter(u, q)),
                q.skip.v, q.limit.v)

\* ---- GET /orders -------------------------------------------------------

get_all_orders_key(q) ==
    get_cache_key(<<"o","r","d","e","r","s">>, <<
        KV(<<"s","t","a","t","u","s">>, q.status),
        KV(<<"u","s","e","r","_","i","d">>, q.user_id),
        KV(<<"m","i","n","_","a","m","o","u","n","t">>, q.min_amount),
        KV(<<"m","a","x","_","a","m","o","u","n","t">>, q.max_amount),
        KV(<<"s","k","i","p">>, q.skip),
        KV(<<"l","i","m","i","t">>, q.limit) >>)

get_all_orders_filter(o, q) ==
    /\ Truthy(q.status) => o.status = q.status.v
    /\ Truthy(q.user_id) => o.user_id = q.user_id.v
    /\ q.min_amount.t # "none" => o.total_amount >= q.min_amount.v
    /\ q.max_amount.t # "none" => o.total_amount <= q.max_amount.v

get_all_orders_query(q) ==
    OffsetLimit(SelectSeq(Orders, LAMBDA o : get_all_orders_filter(o, q)),
                q.skip.v, q.limit.v)

\* ---- GET /transactions -------------------------------------------------

get_all_transactions_key(q) ==
    get_cache_key(<<"t","r","a","n","s","a","c","t","i","o","n","s">>, <<
        KV(<<"s","t","a","t","u","s">>, q.status),
        KV(<<"p","a","y","m","e","n","t","_","m","e","t","h","o","d">>, q.payment_method),
        KV(<<"o","r","d","e","r","_","i","d">>, q.order_id),
        KV(<<"m","i","n","_","a","m","o","u","n","t">>, q.min_amount),
        KV(<<"m","a","x","_","a","m","o","u","n","t">>, q.max_amount),
        KV(<<"s","k","i","p">>, q.skip),
        KV(<<"l","i","m","i","t">>, q.limit) >>)

get_all_transactions_filter(x, q) ==
    /\ Truthy(q.status) => x.status = q.status.v
    /\ Truthy(q.payment_method) => x.payment_method = q.payment_method.v
    /\ Truthy(q.order_id) => x.order_id = q.order_id.v
    /\ q.min_amount.t # "none" => x.amount >= q.min_amount.v
    /\ q.max_amount.t # "none" => x.amount <= q.max_amount.v

get_all_transactions_query(q) ==
    OffsetLimit(SelectSeq(Transactions, LAMBDA x : get_all_transactions_filter(x, q)),
                q.skip.v, q.limit.v)

\* ---- GET /stats/charts -------------------------------------------------

\* one column of a list of rows
Col(rows, field) == [i \in 1..Len(rows) |-> rows[i][field]]

\* the group-by counts: value -> number of rows (or distinct ids) having it
GroupCount(rows, key, counted, distinct) ==
    [k \in {rows[i][key] : i \in 1..Len(rows)} |->
        LET g == SelectSeq(rows, LAMBDA r : r[key] = k)
        IN  IntV(IF distinct THEN CountDistinct(Col(g, counted)) ELSE Len(g))]

get_chart_stats_key(q) == get_cache_key(<<"c","h","a","r","t","_","s","t","a","t","s">>, << KV(<<"p","e","r","i","o","d">>, q.period) >>)

\* the five aggregate queries and the result dict built from them
chart_aggregates(period, start_date) ==
    LET by_order == SelectSeq(fact_sales, LAMBDA fs : fs.order_created_at >= start_date)
        by_tx == SelectSeq(fact_sales, LAMBDA fs : fs.transaction_timestamp >= start_date)
        odays == SortedInts({DateOf(by_order[i].order_created_at) : i \in 1..Len(by_order)})
        tdays == SortedInts({DateOf(by_tx[i].transaction_timestamp) : i \in 1..Len(by_tx)})
    IN  [period |-> period,
         revenue_by_day |->
            [i \in 1..Len(odays) |->
                LET g == SelectSeq(by_order,
                                   LAMBDA fs : DateOf(fs.order_created_at) = odays[i])
                IN  [date |-> StrV(DateStr(odays[i])),
                     revenue |-> FloatV(SumSeq(Col(g, "order_total_amount"))),
                     orders |-> IntV(CountDistinct(Col(g, "order_id")))]],
         transactions_by_day |->
            [i \in 1..Len(tdays) |->
                LET g == SelectSeq(by_tx,
                                   LAMBDA fs : DateOf(fs.transaction_timestamp) = tdays[i])
                IN  [date |-> StrV(DateStr(tdays[i])), count |-> IntV(Len(g))]],
         payment_methods |->
            GroupCount(by_tx, "transaction_payment_method",
                       "transaction_id", FALSE),
         order_statuses |->
            GroupCount(by_order, "order_status",
                       "order_id", TRUE),
         transaction_statuses |->
            GroupCount(by_tx, "transaction_status",
                       "transaction_id", FALSE)]

\* mutant of get_chart_stats_query: the default window is a month
get_chart_stats_query_month(q, t) ==
    LET days == IF InMap(q.period, chart_periods_map)
                THEN chart_periods_map[q.period.v] ELSE 30
    IN  chart_aggregates(q.period, StartDate(t, days))

\* start_date = now - periods_map.get(period, timedelta(days=7)), then the
\* queries
get_chart_stats_query(q, t) ==
    LET days == IF InMap(q.period, chart_periods_map)
                THEN chart_periods_map[q.period.v] ELSE 7
    IN  chart_aggregates(q.period, StartDate(t, days))

\* cache_duration = 3600 * 24 if period in ['6months', '9months', '1year'] else 600
get_chart_stats_expire(q) ==
    IF q.period.t = "str" /\ q.period.v \in LongPeriods THEN 3600 * 24 ELSE 600

\* ---- GET /stats/summary ------------------------------------------------

\* ((total - prev) / prev * 100) if prev > 0 else 0, rounded: held in tenths
\* of a percent (integer division stands for round())
PercentChange(total, prev) ==
    IF prev > 0 THEN ((total - prev) * 1000) \div prev ELSE 0

\* round(change, 2) as the Python value it is: the quotient of two SUMs over
\* a DECIMAL column is a Decimal, the quotient of two counts or two floats
\* is a float, and the else branch is the int 0
RoundedChange(total, prev, numeric) ==
    IF prev > 0
    THEN (IF numeric THEN DecimalV(PercentChange(total, prev))
          ELSE FloatV(PercentChange(total, prev)))
    ELSE IntV(0)

\* the statistics of one window of `days` days ending at t
period_stats(days, t) ==
    LET start_date == StartDate(t, days)
        prev_start_date == StartDate(t, days * 2)
        cur == SelectSeq(fact_sales, LAMBDA fs : fs.order_created_at >= start_date)
        cur_tx == SelectSeq(fact_sales, LAMBDA fs : fs.transaction_timestamp >= start_date)
        prev == SelectSeq(fact_sales, LAMBDA fs : /\ fs.order_created_at >= prev_start_date
                                                   /\ fs.order_created_at < start_date)
        prev_tx == SelectSeq(fact_sales,
                             LAMBDA fs : /\ fs.transaction_timestamp >= prev_start_date
                                         /\ fs.transaction_timestamp < start_date)
        total_revenue == SumSeq(Col(cur, "order_total_amount"))
        total_orders == CountDistinct(Col(cur, "order_id"))
        total_transactions == Len(cur_tx)
        total_users == CountDistinct(Col(cur, "user_id"))
        prev_revenue == SumSeq(Col(prev, "order_total_amount"))
        prev_orders == CountDistinct(Col(prev, "order_id"))
        prev_transactions == Len(prev_tx)
        prev_users == CountDistinct(Col(prev, "user_id"))
        avg_order_value == IF total_orders > 0 THEN total_revenue \div total_orders ELSE 0
        prev_avg_order_value == IF prev_orders > 0 THEN prev_revenue \div prev_orders ELSE 0
    IN  [total_revenue |-> FloatV(total_revenue),
         total_orders |-> IntV(total_orders),
         total_transactions |-> IntV(total_transactions),
         total_users |-> IntV(total_users),
         avg_order_value |->
            IF total_orders > 0 THEN FloatV(avg_order_value) ELSE IntV(0),
         start_date |-> StrV(isoformat(start_date)),
         end_date |-> StrV(isoformat(t)),
         changes |->
            [revenue_change_percent |->
                RoundedChange(total_revenue, prev_revenue, TRUE),
             orders_change_percent |->
                RoundedChange(total_orders, prev_orders, FALSE),
             transactions_change_percent |->
                RoundedChange(total_transactions, prev_transactions, FALSE),
             users_change_percent |-> RoundedChange(total_users, prev_users, FALSE),
             avg_order_value_change_percent |->
                RoundedChange(avg_order_value, prev_avg_order_value, FALSE)]]

get_summary_stats_key(q) == get_cache_key(<<"s","u","m","m","a","r","y","_","s","t","a","t","s">>, << KV(<<"p","e","r","i","o","d">>, q.period) >>)

\* a single period when the token is known, otherwise a dict of all seven
\* periods keyed by their names
get_summary_stats_query(q, t) ==
    IF Truthy(q.period) /\ InMap(q.period, periods)
    THEN StatsPayload([period |-> q.period] @@ period_stats(periods[q.period.v], t))
    ELSE AllStatsPayload([period_name \in DOMAIN periods |->
                             period_stats(periods[period_name], t)])
(***************************************************************************)
(* Dispatch over the eight cached read endpoints.  A request is a record   *)
(* [endpoint, q]; endpoint is the handler's cache namespace.               *)
(***************************************************************************)

ListEndpoints == {"fact_sales", "product_search", "products", "users", "orders",
                  "transactions"}

DictEndpoints == {"chart_stats", "summary_stats"}

PeriodEndpoints == {"fact_sales", "product_search", "chart_stats", "summary_stats"}

\* cache_key = get_cache_key(<endpoint>, ...) at the top of each handler
CacheKey(r) ==
    CASE r.endpoint = "fact_sales" -> get_all_item_key(r.q)
      [] r.endpoint = "product_search" -> search_products_sales_key(r.q)
      [] r.endpoint = "products" -> get_all_products_key(r.q)
      [] r.endpoint = "users" -> get_all_users_key(r.q)
      [] r.endpoint = "orders" -> get_all_orders_key(r.q)
      [] r.endpoint = "transactions" -> get_all_transactions_key(r.q)
      [] r.endpoint = "chart_stats" -> get_chart_stats_key(r.q)
      [] r.endpoint = "summary_stats" -> get_summary_stats_key(r.q)

\* the rows (or the dict) the handler's query returns at time t
SourceRows(r, table, t) ==
    CASE r.endpoint = "fact_sales" -> ListPayload(get_all_item_query(r.q, t))
      [] r.endpoint = "product_search" -> ListPayload(search_products_sales_query(r.q, t))
      [] r.endpoint = "products" -> ListPayload(get_all_products_query(r.q, table))
      [] r.endpoint = "users" -> ListPayload(get_all_users_query(r.q))
      [] r.endpoint = "orders" -> ListPayload(get_all_orders_query(r.q))
      [] r.endpoint = "transactions" -> ListPayload(get_all_transactions_query(r.q))
      [] r.endpoint = "chart_stats" -> DictPayload(get_chart_stats_query(r.q, t))
      [] r.endpoint = "summary_stats" -> get_summary_stats_query(r.q, t)

\* whether [Schema.model_validate(x) for x in rows] succeeds; only the
\* products table is written through the API, the other tables hold the
\* loader's rows, which satisfy their schemas
RowsValidate(r, rows) ==
    r.endpoint = "products"
        => \A i \in 1..Len(rows.items) : ProductSchemaValid(rows.items[i])

\* result = [Schema.model_validate(x).model_dump() for x in rows]
DumpRows(r, rows) ==
    CASE r.endpoint \in {"fact_sales", "product_search"} ->
            ListPayload([i \in 1..Len(rows.items) |-> FactSalesDump(rows.items[i])])
      [] r.endpoint = "products" ->
            ListPayload([i \in 1..Len(rows.items) |-> ProductDump(rows.items[i])])
      [] r.endpoint = "users" ->
            ListPayload([i \in 1..Len(rows.items) |-> UserDump(rows.items[i])])
      [] r.endpoint = "orders" ->
            ListPayload([i \in 1..Len(rows.items) |-> OrderDump(rows.items[i])])
      [] r.endpoint = "transactions" ->
            ListPayload([i \in 1..Len(rows.items) |-> TransactionDump(rows.items[i])])
      [] OTHER -> rows

\* the structure of the body FastAPI sends for what a handler returned:
\* field names, nesting and the kind of each value.  The list routes
\* declare a response_model, which validates and serialises each field by
\* the schema; /stats/charts and /stats/summary declare none, and what
\* they return goes through jsonable_encoder
ResponseShape(r, returned) ==
    IF r.endpoint \in ListEndpoints
    THEN EncodePayload(returned, "model")
    ELSE EncodePayload(EncodePayload(returned, "encoder"), "kind")

\* def set_to_cache(redis_client, cache_key, data, expire: int = 600)
DefaultExpire == 600

\* the expire argument of the handler's set_to_cache call
ExpireArg(r) ==
    CASE r.endpoint \in {"fact_sales", "product_search"} -> 300
      [] r.endpoint = "chart_stats" -> get_chart_stats_expire(r.q)
      [] OTHER -> DefaultExpire

\* mutant of set_to_cache: the caller's expire is doubled
set_to_cache_doubled(cache_key, expire) == 2 * expire

\* mutant of set_to_cache: the medium rule is tested before the long one
set_to_cache_medium_first(cache_key, expire) ==
    IF \E period \in MediumPeriods : Contains(cache_key, period) THEN 3600
    ELSE IF \E period \in LongPeriods : Contains(cache_key, period) THEN 3600 * 24
    ELSE expire

\* set_to_cache: the TTL handed to redis_client.setex
set_to_cache(cache_key, expire) ==
    IF \E period \in LongPeriods : Contains(cache_key, period) THEN 3600 * 24
    ELSE IF \E period \in MediumPeriods : Contains(cache_key, period) THEN 3600
    ELSE expire

(***************************************************************************)
(* The requests clients send (after FastAPI filled in the defaults).       *)
(***************************************************************************)

AllPeriods == {PeriodTokens[i] : i \in 1..Len(PeriodTokens)}

\* an Optional[str] period parameter: absent, or one of the tokens
PeriodValues == {None} \cup {StrV(p) : p \in AllPeriods}

FactSalesQ(product_category, period) ==
    [product_category |-> product_category, order_status |-> None,
     transaction_status |-> None, payment_method |-> None, user_email |-> None,
     min_price |-> None, max_price |-> None, min_quantity |-> None,
     period |-> period, from_date |-> None, skip |-> IntV(0), limit |-> IntV(1000)]

SearchQ(query, period) ==
    [query |-> StrV(query), period |-> period, skip |-> IntV(0), limit |-> IntV(1000)]

ProductsQ(category, limit) ==
    [category |-> category, name |-> None, min_price |-> None, max_price |-> None,
     min_rating |-> None, in_stock |-> None, skip |-> IntV(0), limit |-> IntV(limit)]

UsersQ(name) ==
    [name |-> name, email |-> None, phone |-> None, skip |-> IntV(0), limit |-> IntV(100)]

OrdersQ(status) ==
    [status |-> status, user_id |-> None, min_amount |-> None, max_amount |-> None,
     skip |-> IntV(0), limit |-> IntV(100)]

TransactionsQ(status) ==
    [status |-> status, payment_method |-> None, order_id |-> None,
     min_amount |-> None, max_amount |-> None, skip |-> IntV(0), limit |-> IntV(100)]

Req(endpoint, q) == [endpoint |-> endpoint, q |-> q]

ReadInputs ==
    {Req("fact_sales", FactSalesQ(None, p)) : p \in PeriodValues}
    \cup {Req("fact_sales", FactSalesQ(StrV(<<"t","o","y","s">>), None))}
    \cup {Req("product_search", SearchQ(<<"b","o","o","t">>, p)) : p \in PeriodValues}
    \cup {Req("product_search", SearchQ(<<"l","a","m","p">>, None))}
    \cup {Req("chart_stats", [period |-> StrV(p)]) : p \in AllPeriods}
    \cup {Req("summary_stats", [period |-> p]) : p \in PeriodValues}
    \* a period that is no token of the map, with and without from_date
    \cup {Req("fact_sales", [FactSalesQ(None, StrV(<<"d","e","c","a","d","e">>)) EXCEPT
                                !.from_date = StrV(isoformat(0 - 50 * SecondsPerDay))]),
          Req("product_search", SearchQ(<<"b","o","o","t">>, StrV(<<"d","e","c","a","d","e">>))),
          Req("summary_stats", [period |-> StrV(<<"s","t","a","t","s">>)])}
    \* a chart period that is no token of the map
    \cup {Req("chart_stats", [period |-> StrV(<<"d","e","c","a","d","e">>)])}
    \* no period, a from_date that is no ISO date
    \cup {Req("fact_sales", [FactSalesQ(None, None) EXCEPT !.from_date = StrV(<<"s","o","o","n">>)])}
    \* limits at and above the cap
    \cup {Req("fact_sales", [FactSalesQ(None, None) EXCEPT !.limit = IntV(n)]) :
             n \in {10000, 20000}}
    \cup {Req("product_search", [SearchQ(<<"b","o","o","t">>, None) EXCEPT !.limit = IntV(n)]) :
             n \in {10000, 10001}}
    \cup {Req("products", ProductsQ(None, 100)),
          Req("products", ProductsQ(StrV(<<"s","h","o","e","s">>), 50)),
          Req("products", ProductsQ(StrV(<<"h","a","t","s">>), 100))}
    \cup {Req("users", UsersQ(None)), Req("users", UsersQ(StrV(<<"z","o","e">>)))}
    \cup {Req("orders", OrdersQ(None)), Req("orders", OrdersQ(StrV(<<"s","h","i","p","p","e","d">>)))}
    \cup {Req("transactions", TransactionsQ(None)),
          Req("transactions", TransactionsQ(StrV(<<"r","e","f","u","n","d","e","d">>)))}

\* the key of every request, derived once
KeyOf == [r \in ReadInputs |-> CacheKey(r)]

\* the period a request carries; endpoints without the parameter carry none
PeriodOf(r) == IF r.endpoint \in PeriodEndpoints THEN r.q.period ELSE None

\* one run: the read requests the clients repeat, whether they also use the
\* product write endpoints, whether preload meets failures, whether the
\* process is restarted, whether the loader has filled fact_sales, and
\* whether the clients also call GET /entries
Client(reads, writes) ==
    [reads |-> reads, writes |-> writes, faults |-> FALSE, restarts |-> FALSE,
     seeded |-> TRUE, entries |-> FALSE]

Workloads ==
    {Client({r}, r = Req("products", ProductsQ(StrV(<<"h","a","t","s">>), 100))) : r \in ReadInputs}
    \cup {Client({Req("fact_sales", FactSalesQ(None, StrV(<<"6","m","o","n","t","h","s">>))),
                  Req("chart_stats", [period |-> StrV(<<"1","y","e","a","r">>)])}, FALSE)}
    \* the same listing asked for with two limits above the cap
    \cup {Client({Req("fact_sales", [FactSalesQ(None, None) EXCEPT !.limit = IntV(n)]) :
                     n \in {10000, 20000}}, FALSE)}
    \* the database has not been loaded
    \cup {[Client({r}, FALSE) EXCEPT !.seeded = FALSE] :
             r \in {Req("fact_sales", FactSalesQ(None, StrV(<<"6","m","o","n","t","h","s">>))),
                    Req("summary_stats", [period |-> StrV(<<"1","y","e","a","r">>)])}}
    \* the process is restarted
    \cup {[Client({r}, FALSE) EXCEPT !.restarts = TRUE] :
             r \in {Req("products", ProductsQ(None, 100)),
                    Req("fact_sales", FactSalesQ(None, StrV(<<"9","m","o","n","t","h","s">>)))}}
    \* the clients call GET /entries as well
    \cup {[Client({r}, FALSE) EXCEPT !.entries = TRUE] :
             r \in {Req("users", UsersQ(None))}}
    \* the database or Redis fails during preload
    \cup {[Client({r}, FALSE) EXCEPT !.faults = TRUE] :
             r \in {Req("chart_stats", [period |-> StrV(<<"6","m","o","n","t","h","s">>)]),
                    Req("transactions", TransactionsQ(None))}}

(***************************************************************************)
(* Bodies of the product write endpoints.                                  *)
(***************************************************************************)

\* ProductCreate: price gt=0, stock ge=0, rating None or in [0, 5]
ProductCreateValid(body) ==
    /\ body.price > 0
    /\ body.stock >= 0
    /\ (body.rating = SqlNull \/ (body.rating >= 0 /\ body.rating <= 50))

CreateBodies ==
    {[name |-> <<"c","a","p">>, category |-> <<"h","a","t","s">>, price |-> 150, stock |-> 4, rating |-> SqlNull],
     [name |-> <<"f","r","e","e">>, category |-> <<"h","a","t","s">>, price |-> 0, stock |-> 1, rating |-> SqlNull]}

\* ProductUpdate (all fields optional): the record holds the fields that
\* were sent, model_dump(exclude_unset=True)
ProductUpdateValid(body) ==
    /\ "price" \in DOMAIN body => body.price > 0
    /\ "stock" \in DOMAIN body => body.stock >= 0
    /\ "rating" \in DOMAIN body
          => (body.rating = SqlNull \/ (body.rating >= 0 /\ body.rating <= 50))

UpdateBodies ==
    {[category |-> <<"h","a","t","s">>, stock |-> 0], [price |-> 990, category |-> <<"h","a","t","s">>], [price |-> 0]}

(***************************************************************************)
(* State                                                                   *)
(***************************************************************************)

\* requests started in one run
MaxRequests == 2

\* product writes committed in one run
MaxMutations == 1

\* process starts in one run (the first start and the restarts)
MaxStartups == 2

\* failures of the database or of Redis met by preload in one run
MaxFaults == 1

\* seconds between the end of one process and the start of the next
RestartDelay == 60

\* request handlers that can be in flight together (sync handlers run in
\* the server's thread pool)
Slots == {1, 2}

NoPayload == [kind |-> "none", items |-> <<>>, value |-> <<>>]

\* ver and sent are history: the number of product writes committed when
\* the stored result was computed, and the structure of the response the
\* request that stored it sent (none for an entry preload stored)
NoEntry ==
    [present |-> FALSE, text |-> NoPayload, ttl |-> 0, exp |-> 0, ver |-> 0,
     sent |-> NoPayload]

Idle ==
    [pc |-> "idle", input |-> [endpoint |-> "none", q |-> <<>>], key |-> <<>>,
     seen |-> NoEntry, lookup |-> "none", cached |-> NoPayload,
     rows |-> NoPayload, result |-> NoPayload,
     ver_at_lookup |-> 0, ver |-> 0,
     queries |-> 0, writes |-> 0, written |-> NoEntry,
     status |-> 0, body |-> NoPayload, db |-> "none"]

KdIdle == [phase |-> "off", endpoint |-> <<>>, p1 |-> <<>>, p2 |-> <<>>,
           s1 |-> <<>>, s2 |-> <<>>, k1 |-> <<>>, k2 |-> <<>>]

RespIdle == [op |-> "none", product_id |-> 0, status |-> 0]

CallIdle == [phase |-> "off", cache_key |-> <<>>, expire |-> 0, ttl |-> 0, given |-> FALSE]

\* the process before its startup hook has run; run counts the process
\* starts, faults the failures preload has met; at is the time of the
\* preload run, fresh whether it found no live entry at all; the sets are
\* history of the run, over (shape, window) pairs
PreIdle ==
    [pc |-> "unstarted", hook |-> FALSE, tasks |-> 0, run |-> 1, faults |-> 0,
     w |-> 1, shape |-> "chart", at |-> 0, fresh |-> FALSE, caught |-> "none",
     checked |-> FALSE, db |-> "none",
     attempted |-> {}, found |-> {}, queried |-> {}, wrote |-> {}, failed |-> {}]

\* the module has been imported: app exists, Redis holds nothing, the
\* startup hook has not run
Init ==
    /\ now = 0
    /\ store = <<>>
    /\ products = InitialProducts
    /\ next_product_id = Len(InitialProducts) + 1
    /\ req = [s \in Slots |-> Idle]
    /\ started = 0
    /\ mutations = 0
    /\ workload \in Workloads
    /\ kd = KdIdle
    /\ call = CallIdle
    /\ resp = RespIdle
    /\ pre = PreIdle

(***************************************************************************)
(* Redis                                                                   *)
(***************************************************************************)

\* what TTL reports, and the model holds as expiry time, for a key that was
\* set without an expiration
NoExpiry == -1

\* the entry has an expiration and it has passed at time t
Expired(e, t) == e.exp # NoExpiry /\ e.exp <= t

\* redis_client.get(key) at time t: the entry, when it has not expired
redis_get(st, key, t) ==
    IF key \in DOMAIN st /\ ~Expired(st[key], t)
    THEN [present |-> TRUE, text |-> st[key].text, ttl |-> st[key].ttl,
          exp |-> st[key].exp, ver |-> st[key].ver, sent |-> st[key].sent]
    ELSE NoEntry

\* mutant of redis_setex: an entry that is there is kept (first writer wins)
redis_setex_keeping(st, key, ttl, text, t, ver, sent) ==
    [k \in DOMAIN st \cup {key} |->
        IF k \in DOMAIN st THEN st[k]
        ELSE [text |-> text, ttl |-> ttl, exp |-> t + ttl, ver |-> ver, sent |-> sent]]

\* redis_client.setex(key, ttl, text) at time t: overwrite, TTL included
redis_setex(st, key, ttl, text, t, ver, sent) ==
    [k \in DOMAIN st \cup {key} |->
        IF k = key
        THEN [text |-> text, ttl |-> ttl, exp |-> t + ttl, ver |-> ver, sent |-> sent]
        ELSE st[k]]

\* redis.set(key, text): overwrite, without expiration
redis_set(st, key, text, ver) ==
    [k \in DOMAIN st \cup {key} |->
        IF k = key
        THEN [text |-> text, ttl |-> NoExpiry, exp |-> NoExpiry, ver |-> ver,
              sent |-> NoPayload]
        ELSE st[k]]

\* def get_from_cache(redis_client, cache_key): the decoded payload or None
get_from_cache(st, key, t) ==
    LET cached == redis_get(st, key, t)
    IN  IF cached.present THEN json_loads(cached.text) ELSE NoPayload

\* if cached_data: return cached_data
IsHit(cached_data) == cached_data.kind # "none" /\ PayloadTruthy(cached_data)

(***************************************************************************)
(* Startup and the preload task.  startup_event creates the task and       *)
(* returns; preload_cache is a coroutine without an await, so once the     *)
(* event loop runs it, it runs to its end before the loop does anything    *)
(* else.  The server accepts connections when the loop has run the         *)
(* callbacks queued during startup, the preload task among them.           *)
(***************************************************************************)

\* periods_to_preload = ['6months', '9months', '1year']
periods_to_preload == << <<"6","m","o","n","t","h","s">>, <<"9","m","o","n","t","h","s">>, <<"1","y","e","a","r">> >>

\* the three sections of one iteration, in program order
Shapes == <<"chart", "table", "summary">>

\* the (shape, window) pairs preload goes through
PreloadPairs == {<<Shapes[i], w>> : i \in 1..Len(Shapes), w \in 1..Len(periods_to_preload)}

\* chart_cache_key = get_cache_key("chart_stats", period=period)
preload_chart_key(period) ==
    get_cache_key(<<"c","h","a","r","t","_","s","t","a","t","s">>, << KV(<<"p","e","r","i","o","d">>, StrV(period)) >>)

\* all_cache_key = get_cache_key("fact_sales", ..., period=period, ...,
\* skip=0, limit=1000)
preload_all_key(period) ==
    get_cache_key(<<"f","a","c","t","_","s","a","l","e","s">>, <<
        KV(<<"p","r","o","d","u","c","t","_","c","a","t","e","g","o","r","y">>, None),
        KV(<<"o","r","d","e","r","_","s","t","a","t","u","s">>, None),
        KV(<<"t","r","a","n","s","a","c","t","i","o","n","_","s","t","a","t","u","s">>, None),
        KV(<<"p","a","y","m","e","n","t","_","m","e","t","h","o","d">>, None),
        KV(<<"u","s","e","r","_","e","m","a","i","l">>, None),
        KV(<<"m","i","n","_","p","r","i","c","e">>, None),
        KV(<<"m","a","x","_","p","r","i","c","e">>, None),
        KV(<<"m","i","n","_","q","u","a","n","t","i","t","y">>, None),
        KV(<<"p","e","r","i","o","d">>, StrV(period)),
        KV(<<"f","r","o","m","_","d","a","t","e">>, None),
        KV(<<"s","k","i","p">>, IntV(0)),
        KV(<<"l","i","m","i","t">>, IntV(1000)) >>)

\* stats_cache_key = get_cache_key("summary_stats", period=period)
preload_stats_key(period) ==
    get_cache_key(<<"s","u","m","m","a","r","y","_","s","t","a","t","s">>, << KV(<<"p","e","r","i","o","d">>, StrV(period)) >>)

\* the key of every pair, derived once
PreloadKeyOf ==
    [pair \in PreloadPairs |->
        CASE pair[1] = "chart" -> preload_chart_key(periods_to_preload[pair[2]])
          [] pair[1] = "table" -> preload_all_key(periods_to_preload[pair[2]])
          [] pair[1] = "summary" -> preload_stats_key(periods_to_preload[pair[2]])]

\* chart_result: the five aggregate queries of get_chart_stats, verbatim
preload_chart_result(period, t) ==
    DictPayload(chart_aggregates(StrV(period), StartDate(t, preload_periods_map[period])))

\* result: the rows created in the window, the first 1000, dumped
preload_all_result(period, t) ==
    LET start_date == StartDate(t, preload_periods_map[period])
        rows == OffsetLimit(SelectSeq(fact_sales,
                                      LAMBDA fs : fs.order_created_at >= start_date),
                            0, 1000)
    IN  ListPayload([i \in 1..Len(rows) |-> FactSalesDump(rows[i])])

\* stats_result: the single-period branch of get_summary_stats, verbatim
preload_stats_result(period, t) ==
    StatsPayload([period |-> StrV(period)] @@ period_stats(preload_periods_map[period], t))

PreloadResult(pair, t) ==
    CASE pair[1] = "chart" -> preload_chart_result(periods_to_preload[pair[2]], t)
      [] pair[1] = "table" -> preload_all_result(periods_to_preload[pair[2]], t)
      [] pair[1] = "summary" -> preload_stats_result(periods_to_preload[pair[2]], t)

\* mutant of Recomputes: every section skips a live entry
Recomputes_unless_live(shape, live) == ~live

\* mutant of Recomputes: every section recomputes
Recomputes_always(shape, live) == TRUE

\* mutant of Recomputes: only the chart section computes
Recomputes_chart_only(shape, live) == shape = "chart"

\* whether a section computes and writes: the chart section always, the
\* other two under "if not app.state.redis.get(key)"
Recomputes(shape, live) == shape = "chart" \/ ~live

\* mutant of Catch: only the chart section is guarded
Catch_chart_only(shape) == IF shape = "chart" THEN "inner" ELSE "escaped"

\* the except clause that catches a failure raised in a section: the chart
\* section has its own try, the other two only the try around the loop
Catch(shape) == IF shape = "chart" THEN "inner" ELSE "outer"

\* the request a client sends for the query of a pair, every other
\* parameter at its default
ClientRequestOf(pair) ==
    CASE pair[1] = "chart" ->
            Req("chart_stats", [period |-> StrV(periods_to_preload[pair[2]])])
      [] pair[1] = "table" ->
            Req("fact_sales", FactSalesQ(None, StrV(periods_to_preload[pair[2]])))
      [] pair[1] = "summary" ->
            Req("summary_stats", [period |-> StrV(periods_to_preload[pair[2]])])

\* the position after a section has ended normally
Advance(p) ==
    CASE p.shape = "chart" -> [p EXCEPT !.shape = "table"]
      [] p.shape = "table" -> [p EXCEPT !.shape = "summary"]
      [] p.shape = "summary" ->
            IF p.w < Len(periods_to_preload)
            THEN [p EXCEPT !.shape = "chart", !.w = @ + 1]
            ELSE [p EXCEPT !.pc = "done", !.db = "closed"]

\* the position after a section has raised: the inner except falls through
\* to the next section, the outer one leaves the loop
AfterFailure(p) ==
    LET q == [p EXCEPT !.caught = Catch(p.shape)]
    IN  IF q.caught = "inner" THEN Advance(q) ELSE [q EXCEPT !.pc = "done", !.db = "closed"]

\* the server accepts requests: the hook has returned and the loop is not
\* held by the preload task
Accepting == pre.hook /\ pre.pc = "done"

PreloadRunning == pre.pc = "run"

Unchanged_serving ==
    UNCHANGED <<now, products, next_product_id, req, started, mutations, workload, kd, call,
                resp>>

\* startup_event: the Redis client is made, the task is created, the hook
\* returns
startup_event ==
    /\ pre.pc = "unstarted"
    /\ pre' = [pre EXCEPT !.pc = "scheduled", !.hook = TRUE, !.tasks = @ + 1]
    /\ UNCHANGED store
    /\ Unchanged_serving

\* the loop runs the task: db = SessionLocal(), the loop over the periods
\* is entered
PreloadStart ==
    /\ pre.pc = "scheduled"
    /\ pre' = [pre EXCEPT !.pc = "run", !.w = 1, !.shape = "chart", !.at = now,
                          !.db = "open",
                          !.fresh = \A k \in DOMAIN store : Expired(store[k], now)]
    /\ UNCHANGED store
    /\ Unchanged_serving

\* one section of one iteration, without failure
PreloadStep ==
    /\ pre.pc = "run"
    /\ LET pair == <<pre.shape, pre.w>>
           key == PreloadKeyOf[pair]
           live == redis_get(store, key, now).present
           p == [pre EXCEPT !.attempted = @ \cup {pair},
                            !.found = IF live THEN @ \cup {pair} ELSE @]
       IN  IF Recomputes(pre.shape, live)
           THEN /\ store' = redis_setex(store, key, set_to_cache(key, 3600 * 24),
                                        json_dumps(PreloadResult(pair, now)),
                                        now, mutations, NoPayload)
                /\ pre' = Advance([p EXCEPT !.queried = @ \cup {pair},
                                            !.wrote = @ \cup {pair}])
           ELSE /\ store' = store
                /\ pre' = Advance(p)
    /\ Unchanged_serving

\* one section raises: redis.get ("lookup", table and summary sections), a
\* database query ("source") or redis.setex ("store")
PreloadFails(kind) ==
    /\ pre.pc = "run"
    /\ workload.faults /\ pre.faults < MaxFaults
    /\ LET pair == <<pre.shape, pre.w>>
           live == redis_get(store, PreloadKeyOf[pair], now).present
       IN  /\ kind = "lookup" => pre.shape # "chart"
           /\ kind # "lookup" => Recomputes(pre.shape, live)
           /\ pre' = AfterFailure(
                        [pre EXCEPT !.attempted = @ \cup {pair},
                                    !.failed = @ \cup {pair},
                                    !.faults = @ + 1,
                                    !.found = IF live /\ kind # "lookup"
                                              THEN @ \cup {pair} ELSE @,
                                    !.queried = IF kind = "store"
                                                THEN @ \cup {pair} ELSE @])
    /\ UNCHANGED store
    /\ Unchanged_serving

\* the process ends (shutdown_event) and a new one starts; Redis and the
\* database stay as they are
Restart ==
    /\ pre.pc = "done"
    /\ workload.restarts /\ pre.run < MaxStartups
    /\ \A s \in Slots : req[s].pc \in {"idle", "done"}
    /\ pre' = [PreIdle EXCEPT !.run = pre.run + 1, !.faults = pre.faults]
    /\ req' = [s \in Slots |-> Idle]
    /\ now' = now + RestartDelay
    /\ store' = [k \in {k2 \in DOMAIN store : ~Expired(store[k2], now + RestartDelay)}
                    |-> store[k]]
    /\ UNCHANGED <<products, next_product_id, started, mutations, workload, kd, call, resp>>

(***************************************************************************)
(* A cached read endpoint, in the steps at which other requests, product   *)
(* writes and the clock can interleave: the cache lookup, the query, the   *)
(* cache write.  A Redis call may raise (ConnectionError); nothing in the  *)
(* handlers catches it, so the request ends with status 500.               *)
(***************************************************************************)

FreeSlots == {s \in Slots : req[s].pc \in {"idle", "done"}}

\* a thread of the pool is free and the clients have a request left to send
CanSend == FreeSlots # {} /\ started < MaxRequests

Unchanged_db == UNCHANGED <<products, next_product_id, mutations, kd, call, resp, pre>>

\* mutant of get_db: db.close() follows the yield without try/finally
get_db_no_finally(outcome) == IF outcome = "returned" THEN "closed" ELSE "open"

\* def get_db(): db = SessionLocal(); try: yield db; finally: db.close().
\* The session of a request by what its handler has done so far: running,
\* returned or raised
get_db(outcome) == IF outcome = "running" THEN "open" ELSE "closed"

\* the top of a handler, in whichever server process runs it: the key is
\* derived and looked up
Arrive(s, r) ==
    /\ started < MaxRequests
    /\ s \in FreeSlots /\ \A s2 \in FreeSlots : s <= s2
    /\ r \in workload.reads
    /\ LET key == KeyOf[r]
           cached_data == get_from_cache(store, key, now)
           base == [Idle EXCEPT !.input = r, !.key = key, !.lookup = "ok",
                                !.db = get_db("running"),
                                !.ver_at_lookup = mutations,
                                !.seen = redis_get(store, key, now),
                                !.cached = cached_data]
       IN  req' = [req EXCEPT ![s] =
                      IF IsHit(cached_data)
                      THEN [base EXCEPT !.pc = "done", !.status = 200,
                                        !.db = get_db("returned"),
                                        !.body = cached_data]
                      ELSE [base EXCEPT !.pc = "query"]]
    /\ started' = started + 1
    /\ UNCHANGED <<now, store, workload>>
    /\ Unchanged_db

\* the request arrives at this process, the key is derived and looked up
Lookup(s, r) ==
    /\ Accepting
    /\ Arrive(s, r)

\* the request arrives and redis_client.get raises
LookupRaises(s, r) ==
    /\ Accepting
    /\ started < MaxRequests
    /\ s \in FreeSlots /\ \A s2 \in FreeSlots : s <= s2
    /\ r \in workload.reads
    /\ req' = [req EXCEPT ![s] =
                  [Idle EXCEPT !.pc = "done", !.input = r, !.key = KeyOf[r],
                               !.db = get_db("raised"),
                               !.lookup = "raised", !.ver_at_lookup = mutations,
                               !.seen = redis_get(store, KeyOf[r], now),
                               !.status = 500]]
    /\ started' = started + 1
    /\ UNCHANGED <<now, store, workload>>
    /\ Unchanged_db

\* a client request is accepted (and its cache lookup answers)
Arrival == \E s \in Slots, r \in ReadInputs : Lookup(s, r)

\* the query against the source of truth and the dump of its rows
Query(s) ==
    /\ req[s].pc = "query"
    /\ LET r == req[s].input
           rows == SourceRows(r, products, now)
       IN  req' = [req EXCEPT ![s] =
                      IF RowsValidate(r, rows)
                      THEN [@ EXCEPT !.pc = "write", !.rows = rows,
                                     !.result = DumpRows(r, rows),
                                     !.ver = mutations,
                                     !.queries = @ + 1]
                      ELSE [@ EXCEPT !.pc = "done", !.rows = rows,
                                     !.db = get_db("raised"),
                                     !.ver = mutations,
                                     !.queries = @ + 1, !.status = 500]]
    /\ UNCHANGED <<now, store, started, workload>>
    /\ Unchanged_db

\* mutant of QueryRaises: the failed request leaves a placeholder entry
QueryRaises_placeholder(s) ==
    /\ req[s].pc = "query"
    /\ workload.faults
    /\ req' = [req EXCEPT ![s] =
                  [@ EXCEPT !.pc = "done", !.queries = @ + 1, !.status = 500,
                            !.db = get_db("raised")]]
    /\ store' = redis_setex(store, req[s].key, DefaultExpire, ListPayload(<<>>), now,
                            mutations, NoPayload)
    /\ UNCHANGED <<now, started, workload>>
    /\ Unchanged_db

\* the query raises (the database is down): nothing in the handler or in
\* get_db catches it, the session is closed and the request ends with 500
QueryRaises(s) ==
    /\ req[s].pc = "query"
    /\ workload.faults
    /\ req' = [req EXCEPT ![s] =
                  [@ EXCEPT !.pc = "done", !.queries = @ + 1, !.status = 500,
                            !.db = get_db("raised")]]
    /\ UNCHANGED <<now, store, started, workload>>
    /\ Unchanged_db

\* set_to_cache(...) and the return of the rows
Write(s) ==
    /\ req[s].pc = "write"
    /\ LET r == req[s].input
           ttl == set_to_cache(req[s].key, ExpireArg(r))
           text == json_dumps(req[s].result)
           sent == ResponseShape(r, req[s].result)
       IN  /\ store' = redis_setex(store, req[s].key, ttl, text, now, req[s].ver, sent)
           /\ req' = [req EXCEPT ![s] =
                         [@ EXCEPT !.pc = "done", !.writes = @ + 1,
                                   !.db = get_db("returned"),
                                   !.written = [present |-> TRUE, text |-> text,
                                                ttl |-> ttl, exp |-> now + ttl,
                                                ver |-> req[s].ver, sent |-> sent],
                                   !.status = 200, !.body = req[s].rows]]
    /\ UNCHANGED <<now, started, workload>>
    /\ Unchanged_db

\* redis_client.setex raises inside set_to_cache
WriteRaises(s) ==
    /\ req[s].pc = "write"
    /\ req' = [req EXCEPT ![s] = [@ EXCEPT !.pc = "done", !.status = 500,
                                             !.db = get_db("raised")]]
    /\ UNCHANGED <<now, store, started, workload>>
    /\ Unchanged_db

(***************************************************************************)
(* The product write endpoints (one database transaction each).            *)
(***************************************************************************)

FindProduct(table, product_id) ==
    SelectSeq(table, LAMBDA p : p.product_id = product_id)

\* the ids of the rows of the products table
ProductIds == {products[i].product_id : i \in 1..Len(products)}

\* the response of a product write endpoint
Response(op, product_id, status) ==
    [op |-> op, product_id |-> product_id, status |-> status]

\* response_model=ProductSchema: the row that was committed is validated
\* when the response is built
ResponseModelStatus(row, status) == IF ProductSchemaValid(row) THEN status ELSE 500

\* mutant of create_product: the write also purges the cache
create_product_purging(body) ==
    /\ Accepting
    /\ workload.writes /\ mutations < MaxMutations
    /\ ProductCreateValid(body)
    /\ products' = Append(products, [product_id |-> next_product_id] @@ body)
    /\ next_product_id' = next_product_id + 1
    /\ mutations' = mutations + 1
    /\ resp' = Response("create", next_product_id,
                        ResponseModelStatus([product_id |-> next_product_id] @@ body, 201))
    /\ store' = <<>>
    /\ UNCHANGED <<now, req, started, workload, kd, call, pre>>

\* POST /product/new
create_product(body) ==
    /\ Accepting
    /\ workload.writes /\ mutations < MaxMutations
    /\ ProductCreateValid(body)
    /\ products' = Append(products, [product_id |-> next_product_id] @@ body)
    /\ next_product_id' = next_product_id + 1
    /\ mutations' = mutations + 1
    /\ resp' = Response("create", next_product_id,
                        ResponseModelStatus([product_id |-> next_product_id] @@ body, 201))
    /\ UNCHANGED <<now, store, req, started, workload, kd, call, pre>>

\* mutant of update_product: the fields that were not sent are reset to
\* those of a new row
update_product_replacing(product_id, body) ==
    /\ Accepting
    /\ workload.writes
    /\ ProductUpdateValid(body)
    /\ IF FindProduct(products, product_id) = <<>>
       THEN /\ resp' = Response("update", product_id, 404)
            /\ UNCHANGED <<products, mutations>>
       ELSE /\ mutations < MaxMutations
            /\ products' = [i \in 1..Len(products) |->
                               IF products[i].product_id = product_id
                               THEN [f \in DOMAIN products[i] |->
                                        IF f \in DOMAIN body THEN body[f]
                                        ELSE IF f = "product_id" THEN product_id
                                        ELSE IF f = "rating" THEN SqlNull
                                        ELSE IF f \in {"price", "stock"} THEN 0
                                        ELSE <<>>]
                               ELSE products[i]]
            /\ mutations' = mutations + 1
            /\ resp' = Response("update", product_id,
                                ResponseModelStatus(FindProduct(products', product_id)[1], 200))
    /\ UNCHANGED <<now, store, req, started, next_product_id, workload, kd, call, pre>>

\* PUT /product/{product_id}: 404 when no row has the id; otherwise only
\* the fields that were sent are set
update_product(product_id, body) ==
    /\ Accepting
    /\ workload.writes
    /\ ProductUpdateValid(body)
    /\ IF FindProduct(products, product_id) = <<>>
       THEN /\ resp' = Response("update", product_id, 404)
            /\ UNCHANGED <<products, mutations>>
       ELSE /\ mutations < MaxMutations
            /\ products' = [i \in 1..Len(products) |->
                               IF products[i].product_id = product_id
                               THEN [f \in DOMAIN products[i] |->
                                        IF f \in DOMAIN body THEN body[f]
                                        ELSE products[i][f]]
                               ELSE products[i]]
            /\ mutations' = mutations + 1
            /\ resp' = Response("update", product_id,
                                ResponseModelStatus(FindProduct(products', product_id)[1], 200))
    /\ UNCHANGED <<now, store, req, started, next_product_id, workload, kd, call, pre>>

\* mutant of delete_product: the delete also evicts the cached listings
delete_product_evicting(product_id) ==
    /\ Accepting
    /\ workload.writes /\ mutations < MaxMutations
    /\ FindProduct(products, product_id) # <<>>
    /\ products' = SelectSeq(products, LAMBDA p : p.product_id # product_id)
    /\ mutations' = mutations + 1
    /\ resp' = Response("delete", product_id, 200)
    /\ store' = [k \in {k2 \in DOMAIN store : store[k2].text.kind # "list"} |-> store[k]]
    /\ UNCHANGED <<now, req, started, next_product_id, workload, kd, call, pre>>

\* DELETE /product/{product_id}: 404 when no row has the id
delete_product(product_id) ==
    /\ Accepting
    /\ workload.writes
    /\ IF FindProduct(products, product_id) = <<>>
       THEN /\ resp' = Response("delete", product_id, 404)
            /\ UNCHANGED <<products, mutations>>
       ELSE /\ mutations < MaxMutations
            /\ products' = SelectSeq(products, LAMBDA p : p.product_id # product_id)
            /\ mutations' = mutations + 1
            /\ resp' = Response("delete", product_id, 200)
    /\ UNCHANGED <<now, store, req, started, next_product_id, workload, kd, call, pre>>

\* GET /entries: the value under the key 'entries', set on the first call
read_item ==
    /\ Accepting
    /\ workload.entries
    /\ store' = IF redis_get(store, <<"e","n","t","r","i","e","s">>, now).present THEN store
                ELSE redis_set(store, <<"e","n","t","r","i","e","s">>,
                               DictPayload([message |-> StrV(<<"I","t"," ","w","o","r","k","e","d","!">>)]),
                               mutations)
    /\ UNCHANGED <<now, req, started, workload>>
    /\ Unchanged_db

(***************************************************************************)
(* Time: the clock runs to the expiry of some entry; Redis drops what has  *)
(* expired by then.                                                        *)
(***************************************************************************)

Tick ==
    /\ pre.pc \in {"unstarted", "done"}
    /\ \E t \in {store[k].exp : k \in DOMAIN store} \ {NoExpiry} :
          /\ now' = t
          /\ store' = [k \in {k2 \in DOMAIN store : ~Expired(store[k2], t)} |-> store[k]]
    /\ UNCHANGED <<req, started, workload>>
    /\ Unchanged_db

Next ==
    \/ \E s \in Slots, r \in ReadInputs : Lookup(s, r)
    \/ \E s \in Slots, r \in ReadInputs : LookupRaises(s, r)
    \/ \E s \in Slots : Query(s)
    \/ \E s \in Slots : QueryRaises(s)
    \/ \E s \in Slots : Write(s)
    \/ \E s \in Slots : WriteRaises(s)
    \/ \E body \in CreateBodies : create_product(body)
    \/ \E id \in ProductIds, body \in UpdateBodies : update_product(id, body)
    \/ \E id \in ProductIds : delete_product(id)
    \/ read_item
    \/ Tick
    \/ startup_event
    \/ PreloadStart
    \/ PreloadStep
    \/ \E kind \in {"lookup", "source", "store"} : PreloadFails(kind)
    \/ Restart

Spec == Init /\ [][Next]_vars


(***************************************************************************)
(* The process on its own, without clients: startup, preload, restart.     *)
(* The loop runs a task it has queued, and a blocking call returns or      *)
(* raises, so a preload step that can be taken is taken.                   *)
(***************************************************************************)

PreloadNext ==
    \/ startup_event
    \/ PreloadStart
    \/ PreloadStep
    \/ \E kind \in {"lookup", "source", "store"} : PreloadFails(kind)
    \/ Restart

PreloadSpec == Init /\ [][PreloadNext]_vars /\ WF_vars(PreloadNext)

(***************************************************************************)
(* Two server processes on one Redis: this process starts and preloads,    *)
(* while a process that is already up serves client requests.  Preload     *)
(* holds the event loop of its own process only; between its redis.get and *)
(* its redis.setex for a key the other process runs.                       *)
(***************************************************************************)

\* the chart section: queries and setex, no lookup
PreloadChart ==
    /\ pre.shape = "chart"
    /\ PreloadStep

\* "if not app.state.redis.get(key)" of the table and summary sections
PreloadCheck ==
    /\ pre.pc = "run" /\ pre.shape # "chart" /\ ~pre.checked
    /\ LET pair == <<pre.shape, pre.w>>
           live == redis_get(store, PreloadKeyOf[pair], now).present
           p == [pre EXCEPT !.attempted = @ \cup {pair},
                            !.found = IF live THEN @ \cup {pair} ELSE @]
       IN  pre' = IF Recomputes(pre.shape, live)
                  THEN [p EXCEPT !.checked = TRUE]
                  ELSE Advance(p)
    /\ UNCHANGED store
    /\ Unchanged_serving

\* the queries of the section and its redis.setex
PreloadWrite ==
    /\ pre.pc = "run" /\ pre.checked
    /\ LET pair == <<pre.shape, pre.w>>
           key == PreloadKeyOf[pair]
       IN  /\ store' = redis_setex(store, key, set_to_cache(key, 3600 * 24),
                                   json_dumps(PreloadResult(pair, now)),
                                   now, mutations, NoPayload)
           /\ pre' = Advance([pre EXCEPT !.checked = FALSE,
                                         !.queried = @ \cup {pair},
                                         !.wrote = @ \cup {pair}])
    /\ Unchanged_serving

\* the clients of the other process ask for what preload loads
SharedInit ==
    /\ Init
    /\ \E pair \in PreloadPairs : workload = Client({ClientRequestOf(pair)}, FALSE)

SharedNext ==
    \/ startup_event
    \/ PreloadStart
    \/ PreloadChart
    \/ PreloadCheck
    \/ PreloadWrite
    \/ \E s \in Slots, r \in ReadInputs : Arrive(s, r)
    \/ \E s \in Slots : Query(s)
    \/ \E s \in Slots : Write(s)

SharedSpec == SharedInit /\ [][SharedNext]_vars

(***************************************************************************)
(* The product write endpoints on their own.                               *)
(***************************************************************************)

\* the table after one product was created
TwoProducts ==
    Append(InitialProducts,
           [product_id |-> Len(InitialProducts) + 1, name |-> <<"c","a","p">>, category |-> <<"h","a","t","s">>,
            price |-> 150, stock |-> 4, rating |-> SqlNull])

ProductInit ==
    /\ now = 0
    /\ store = <<>>
    /\ products = TwoProducts
    /\ next_product_id = Len(TwoProducts) + 1
    /\ req = [s \in Slots |-> Idle]
    /\ started = 0
    /\ mutations = 0
    /\ workload = Client({Req("products", ProductsQ(StrV(<<"h","a","t","s">>), 100))}, TRUE)
    /\ kd = KdIdle
    /\ call = CallIdle
    /\ resp = RespIdle
    /\ pre = PreIdle

\* the product write endpoints, called with ids of rows that are there,
\* that were deleted, or that never were
ProductNext ==
    \/ startup_event
    \/ PreloadStart
    \/ PreloadStep
    \/ \E body \in CreateBodies : create_product(body)
    \/ \E id \in 1..next_product_id, body \in UpdateBodies : update_product(id, body)
    \/ \E id \in 1..next_product_id : delete_product(id)
    \/ \E s \in Slots, r \in workload.reads : Lookup(s, r)
    \/ \E s \in Slots : Query(s)
    \/ \E s \in Slots : Write(s)

ProductSpec == ProductInit /\ [][ProductNext]_vars

(***************************************************************************)
(* One process and its clients, with progress: the loop runs the preload   *)
(* task it has queued, a thread of the pool runs its handler on, and a     *)
(* blocking call returns or raises.                                        *)
(***************************************************************************)

SessionInit ==
    /\ Init
    /\ workload = [Client({Req("transactions", TransactionsQ(None))}, FALSE)
                      EXCEPT !.faults = TRUE]

HandlerStep(s) == Query(s) \/ QueryRaises(s) \/ Write(s) \/ WriteRaises(s)

PreloadRuns ==
    \/ startup_event
    \/ PreloadStart
    \/ PreloadStep
    \/ \E kind \in {"lookup", "source", "store"} : PreloadFails(kind)

SessionNext ==
    \/ PreloadRuns
    \/ \E s \in Slots, r \in ReadInputs : Lookup(s, r)
    \/ \E s \in Slots, r \in ReadInputs : LookupRaises(s, r)
    \/ \E s \in Slots : HandlerStep(s)

SessionSpec ==
    /\ SessionInit
    /\ [][SessionNext]_vars
    /\ WF_vars(PreloadRuns)
    /\ \A s \in Slots : WF_vars(HandlerStep(s))
(***************************************************************************)
(* Key derivation on its own: a parameter mapping p1, a second mapping p2  *)
(* made from it by reordering (and, optionally, by changing a value), and  *)
(* the keys get_cache_key derives for both.                                *)
(***************************************************************************)

\* parameters in one mapping
MaxKeyParams == 3

KeyEndpoints == { <<"p","r","o","d","u","c","t","s">> }

KeyNames == { <<"s","k","i","p">>, <<"p","e","r","i","o","d">>, <<"m","i","n","_","p","r","i","c","e">>, <<"i","n","_","s","t","o","c","k">> }

\* the values FastAPI hands the handler for a parameter of each declared
\* type: int, Optional[str], Optional[float], Optional[bool]
KeyValuesOf(name) ==
    CASE name = <<"s","k","i","p">> -> {IntV(0), IntV(10)}
      [] name = <<"p","e","r","i","o","d">> -> {None, StrV(<<"w","e","e","k">>), StrV(<<"n","u","l","l">>)}
      [] name = <<"m","i","n","_","p","r","i","c","e">> -> {None, FloatV(10)}
      [] name = <<"i","n","_","s","t","o","c","k">> -> {None, BoolV(TRUE)}

KeyValues == UNION {KeyValuesOf(n) : n \in KeyNames}

KeyPairs == UNION {{KV(n, v) : v \in KeyValuesOf(n)} : n \in KeyNames}

\* keyword arguments: no name twice
ParamMappings ==
    {p \in UNION {[1..n -> KeyPairs] : n \in 0..MaxKeyParams} :
        \A i, j \in 1..Len(p) : i # j => p[i].name # p[j].name}

\* equal as sets of (name, value) pairs
SameMapping(p1, p2) ==
    {p1[i] : i \in 1..Len(p1)} = {p2[i] : i \in 1..Len(p2)}

\* the same parameter names, whatever their values
SameNames(p1, p2) ==
    {p1[i].name : i \in 1..Len(p1)} = {p2[i].name : i \in 1..Len(p2)}

KeyInit ==
    /\ now = 0
    /\ store = <<>>
    /\ products = InitialProducts
    /\ next_product_id = Len(InitialProducts) + 1
    /\ req = [s \in Slots |-> Idle]
    /\ started = 0
    /\ mutations = 0
    /\ workload = Client({}, FALSE)
    /\ call = CallIdle
    /\ resp = RespIdle
    /\ pre = PreIdle
    /\ \E e \in KeyEndpoints, p \in ParamMappings :
          kd = [phase |-> "chosen", endpoint |-> e, p1 |-> p, p2 |-> p,
                s1 |-> <<>>, s2 |-> <<>>, k1 |-> <<>>, k2 |-> <<>>]

Unchanged_main ==
    UNCHANGED <<now, store, products, next_product_id, req, started, mutations, workload,
                call, resp, pre>>

\* the caller lists two neighbouring keyword arguments the other way round
Reorder(i) ==
    /\ kd.phase = "chosen"
    /\ i \in 1..(Len(kd.p2) - 1)
    /\ kd' = [kd EXCEPT !.p2 = [@ EXCEPT ![i] = kd.p2[i + 1], ![i + 1] = kd.p2[i]]]
    /\ Unchanged_main

\* the caller passes another value for one parameter
Alter(i, v) ==
    /\ kd.phase = "chosen"
    /\ kd.p2 = kd.p1
    /\ i \in 1..Len(kd.p2)
    /\ v \in KeyValuesOf(kd.p2[i].name)
    /\ v # kd.p2[i].val
    /\ kd' = [kd EXCEPT !.p2[i].val = v]
    /\ Unchanged_main

\* both keys are derived
Derive ==
    /\ kd.phase = "chosen"
    /\ kd' = [kd EXCEPT !.phase = "derived",
                        !.s1 = json_dumps_params(kd.p1),
                        !.s2 = json_dumps_params(kd.p2),
                        !.k1 = get_cache_key(kd.endpoint, kd.p1),
                        !.k2 = get_cache_key(kd.endpoint, kd.p2)]
    /\ Unchanged_main

KeyNext ==
    \/ \E i \in 1..MaxKeyParams : Reorder(i)
    \/ \E i \in 1..MaxKeyParams, v \in KeyValues : Alter(i, v)
    \/ Derive

KeySpec == KeyInit /\ [][KeyNext]_vars


(***************************************************************************)
(* set_to_cache on its own: a caller hands it a key and, or not, an        *)
(* expire value.                                                           *)
(***************************************************************************)

\* keys get_cache_key derives, and keys that spell the window out
CallKeys ==
    {KeyOf[r] : r \in ReadInputs}
    \cup { <<"c","h","a","r","t","_","s","t","a","t","s",":","6","m","o","n","t","h","s">>, <<"c","h","a","r","t","_","s","t","a","t","s",":","9","m","o","n","t","h","s">>, <<"s","u","m","m","a","r","y","_","s","t","a","t","s",":","3","m","o","n","t","h","s">>,
           <<"f","a","c","t","_","s","a","l","e","s",":","w","e","e","k">> }

CallExpires == {60, 300, 600, 3600, 3600 * 24}

CallInit ==
    /\ now = 0
    /\ store = <<>>
    /\ products = InitialProducts
    /\ next_product_id = Len(InitialProducts) + 1
    /\ req = [s \in Slots |-> Idle]
    /\ started = 0
    /\ mutations = 0
    /\ workload = Client({}, FALSE)
    /\ kd = KdIdle
    /\ resp = RespIdle
    /\ pre = PreIdle
    /\ \E k \in CallKeys, e \in CallExpires, g \in BOOLEAN :
          call = [phase |-> "chosen", cache_key |-> k, expire |-> e, ttl |-> 0,
                  given |-> g]

\* set_to_cache(redis_client, cache_key, data[, expire=...])
CallStore ==
    /\ call.phase = "chosen"
    /\ LET ttl == set_to_cache(call.cache_key,
                               IF call.given THEN call.expire ELSE DefaultExpire)
       IN  /\ store' = redis_setex(store, call.cache_key, ttl,
                                   json_dumps(ListPayload(<<>>)), now, mutations,
                                   NoPayload)
           /\ call' = [call EXCEPT !.phase = "stored", !.ttl = ttl]
    /\ UNCHANGED <<now, products, next_product_id, req, started, mutations, workload,
                   kd, resp, pre>>

CallNext == CallStore

CallSpec == CallInit /\ [][CallNext]_vars
(***************************************************************************)
(* Properties                                                              *)
(***************************************************************************)

\* the stand-in digest separates the requests of the model: requests whose
\* canonical texts differ (after the limit has been capped) have different
\* keys
KeysDistinct ==
    \A r1, r2 \in ReadInputs :
        KeyOf[r1] = KeyOf[r2]
            => \/ r1 = r2
               \/ /\ r1.endpoint = r2.endpoint
                  /\ r1.endpoint \in {"fact_sales", "product_search"}
                  /\ [r1 EXCEPT !.q.limit = IntV(Min(@.v, 10000))]
                        = [r2 EXCEPT !.q.limit = IntV(Min(@.v, 10000))]

Done(s) == req[s].pc = "done"

\* the request in slot s has a period parameter with one of the tokens
HasPeriodIn(s, tokens) ==
    /\ req[s].input.endpoint \in PeriodEndpoints
    /\ PeriodOf(req[s].input).t = "str"
    /\ PeriodOf(req[s].input).v \in tokens

\* C1: a request that finds a live entry under its key (some earlier request
\* populated it, the TTL has not run out, Redis answered) performs no query
\* against the source of truth and returns the cached payload, whatever the
\* payload is, the empty list included.
C1_HitServesCache ==
    \A s \in Slots :
        (Done(s) /\ req[s].lookup = "ok" /\ req[s].seen.present)
            => /\ req[s].queries = 0
               /\ req[s].status = 200
               /\ req[s].body = json_loads(req[s].seen.text)

\* C2: a request that finds no entry under its key and whose query yields a
\* result performs exactly one query and exactly one store write, of that
\* result under its key, and returns the result.
C2_MissComputesAndWritesOnce ==
    \A s \in Slots :
        (Done(s) /\ req[s].lookup = "ok" /\ ~req[s].seen.present
                 /\ req[s].result.kind # "none")
            => /\ req[s].queries = 1
               /\ req[s].writes = 1
               /\ req[s].written.present
               /\ req[s].written.text = json_dumps(req[s].result)
               /\ req[s].status = 200
               /\ req[s].body = req[s].rows

\* C3: an entry written for a request whose period is 6months, 9months or
\* 1year is stored with a TTL of 86400 seconds.
C3_LongWindowTtl ==
    \A s \in Slots :
        (req[s].written.present /\ HasPeriodIn(s, LongPeriods))
            => req[s].written.ttl = 86400

\* C4: an entry written for a request whose period is month or 3months is
\* stored with a TTL of 3600 seconds.
C4_MediumWindowTtl ==
    \A s \in Slots :
        (req[s].written.present /\ HasPeriodIn(s, MediumPeriods))
            => req[s].written.ttl = 3600

\* the request in slot s has no period, a short one, or no period parameter
ShortOrNoPeriod(s) ==
    \/ req[s].input.endpoint \in (ListEndpoints \cup DictEndpoints) \ PeriodEndpoints
    \/ /\ req[s].input.endpoint \in PeriodEndpoints
       /\ (PeriodOf(req[s].input) = None \/ HasPeriodIn(s, ShortPeriods))

\* C5: an entry written for a request with no period, with period week or
\* 2weeks, or by an endpoint without a period parameter has a TTL of at most
\* 600 seconds.
C5_ShortTtlAtMost600 ==
    \A s \in Slots :
        (req[s].written.present /\ ShortOrNoPeriod(s)) => req[s].written.ttl <= 600

C5_Witness ==
    \E s \in Slots :
        /\ req[s].written.present
        /\ HasPeriodIn(s, ShortPeriods)
        /\ req[s].key \in DOMAIN store
        /\ store[req[s].key].ttl = req[s].written.ttl

\* C6: a request whose cache lookup raised is handled as a miss: the source
\* of truth is queried and the request returns a result, not an error.
C6_LookupFailureIsMiss ==
    \A s \in Slots :
        (Done(s) /\ req[s].lookup = "raised")
            => (req[s].queries = 1 /\ req[s].status = 200)

\* C7: a request whose result was computed and whose store write failed
\* still returns the computed result.
C7_WriteFailureSwallowed ==
    \A s \in Slots :
        (Done(s) /\ req[s].result.kind # "none" /\ ~req[s].written.present)
            => (req[s].status = 200 /\ req[s].body = req[s].rows)

\* C8: after a product write, a request that finds a live entry computed
\* before the write returns that entry's payload without a query; a request
\* that finds no live entry returns the rows of the table as written.
C8_StaleUntilExpiry ==
    \A s \in Slots :
        (Done(s) /\ req[s].lookup = "ok" /\ req[s].input.endpoint = "products"
                 /\ req[s].ver_at_lookup > 0 /\ mutations = req[s].ver_at_lookup)
            => /\ (req[s].seen.present /\ req[s].seen.ver < req[s].ver_at_lookup)
                    => /\ req[s].queries = 0
                       /\ req[s].status = 200
                       /\ req[s].body = json_loads(req[s].seen.text)
               /\ ~req[s].seen.present
                    => /\ req[s].status = 200
                       /\ req[s].body = SourceRows(req[s].input, products, now)

\* C9: a product write (create, update, delete) leaves the cache store as
\* it is: same keys, same payloads, same TTLs.
C9_WritesLeaveStore == [][mutations' # mutations => store' = store]_vars

C9_Witness ==
    \E k \in DOMAIN store : store[k].ver < mutations /\ store[k].exp > now

\* C10: two parameter mappings that are equal as sets of (name, value)
\* pairs derive the same key, in whatever order the pairs were supplied.
C10_KeyOrderIndependent ==
    (kd.phase = "derived" /\ SameMapping(kd.p1, kd.p2)) => kd.k1 = kd.k2

C10_Witness ==
    /\ kd.phase = "derived"
    /\ Len(kd.p1) >= 2
    /\ kd.p1 # kd.p2
    /\ SameMapping(kd.p1, kd.p2)
    /\ kd.k1 = kd.k2

\* C11: for one endpoint name, two parameter mappings with the same names
\* that differ in at least one value, None against a real value included,
\* have different canonical strings, and so different keys.
C11_DifferentValuesDifferentKeys ==
    (kd.phase = "derived" /\ SameNames(kd.p1, kd.p2) /\ ~SameMapping(kd.p1, kd.p2))
        => (kd.s1 # kd.s2 /\ kd.k1 # kd.k2)

C11_Witness ==
    /\ kd.phase = "derived"
    /\ \E i, j \in 1..Len(kd.p1) :
          /\ kd.p1[i].name = kd.p2[j].name
          /\ kd.p1[i].val = None
          /\ kd.p2[j].val = StrV(<<"n", "u", "l", "l">>)
    /\ kd.s1 # kd.s2

\* C12: when preload has ended, every one of the nine (shape, window)
\* pairs has been attempted, whatever failed on the way.
C12_FailureDoesNotAbort ==
    pre.pc = "done" => pre.attempted = PreloadPairs

\* C13: a failure inside preload is caught by an except clause of the
\* task; the startup hook has returned, preload goes on or ends, the server
\* accepts requests once it has ended; and a preload that was scheduled
\* ends.
C13_PreloadFailuresCaught ==
    /\ [](pre.failed # {} =>
            /\ pre.hook
            /\ pre.caught \in {"inner", "outer"}
            /\ pre.pc \in {"run", "done"}
            /\ (pre.pc = "done" => Accepting))
    /\ (pre.pc = "scheduled" ~> pre.pc = "done")

C13_Witness ==
    /\ pre.pc = "done"
    /\ pre.caught = "outer"
    /\ \E pair \in pre.failed : pair[1] = "summary"
    /\ Accepting

\* C14: once the startup hook has returned, exactly one preload task has
\* been created in the process and the server accepts a client request,
\* whether or not preload has ended.
C14_ReadyWithoutWaiting ==
    pre.hook => (pre.tasks = 1 /\ (CanSend => ENABLED Arrival))

\* C15: while preload is between its first and its last step, a client
\* request can be accepted.
C15_ServesDuringPreload ==
    (PreloadRunning /\ pre.attempted # {}) => (CanSend => ENABLED Arrival)

\* C16: a table or summary pair that has a live entry when preload comes to
\* it is neither queried nor written nor failed by that run.
C16_PreloadSkipsLive ==
    \A pair \in pre.found :
        pair[1] \in {"table", "summary"}
            => (pair \notin pre.queried /\ pair \notin pre.wrote /\ pair \notin pre.failed)

C16_Witness ==
    /\ pre.run = 2 /\ pre.pc = "done" /\ pre.failed = {}
    /\ {pair \in PreloadPairs : pair[1] # "chart"} \subseteq pre.found
    /\ pre.queried = {pair \in PreloadPairs : pair[1] = "chart"}

\* C17: a chart pair preload has come to without failure was queried and
\* written in that run, live entry or not, and while the run lasts its
\* entry has TTL 86400, counted from the run.
C17_ChartAlwaysRecomputed ==
    \A pair \in pre.attempted :
        (pair[1] = "chart" /\ pair \notin pre.failed)
            => /\ pair \in pre.queried
               /\ pair \in pre.wrote
               /\ PreloadRunning =>
                    /\ PreloadKeyOf[pair] \in DOMAIN store
                    /\ store[PreloadKeyOf[pair]].ttl = 86400
                    /\ store[PreloadKeyOf[pair]].exp = now + 86400

C17_Witness ==
    /\ PreloadRunning /\ pre.run = 2
    /\ <<"chart", 1>> \in pre.found \cap pre.wrote
    /\ <<"table", 1>> \in pre.found
    /\ store[PreloadKeyOf[<<"chart", 1>>]].exp = now + 86400
    /\ store[PreloadKeyOf[<<"table", 1>>]].exp < now + 86400

\* C18: when a preload run that found no live entry and met no failure has
\* ended, and nothing has happened since, the store holds an entry for each
\* of the nine pairs, each with TTL 86400.
C18_PreloadFillsNine ==
    (/\ pre.pc = "done" /\ pre.fresh /\ pre.failed = {}
     /\ now = pre.at /\ \A s \in Slots : req[s].pc = "idle")
        => \A pair \in PreloadPairs :
              /\ PreloadKeyOf[pair] \in DOMAIN store
              /\ store[PreloadKeyOf[pair]].ttl = 86400
              /\ store[PreloadKeyOf[pair]].exp = now + 86400

C18_Witness ==
    /\ pre.pc = "done" /\ pre.fresh /\ pre.failed = {}
    /\ now = pre.at /\ \A s \in Slots : req[s].pc = "idle"
    /\ Cardinality(DOMAIN store) = 9
    /\ pre.wrote = PreloadPairs

\* C19: after a preload without failure, a client request for the query of
\* a pair that finds the entry live derives the key preload wrote and is
\* served from the cache, without a query.
C19_PreloadedRequestHits ==
    \A s \in Slots, pair \in PreloadPairs :
        (/\ Done(s) /\ req[s].lookup = "ok"
         /\ req[s].input = ClientRequestOf(pair)
         /\ pre.pc = "done" /\ pre.failed = {}
         /\ pair \in pre.wrote \cup pre.found
         /\ req[s].seen.present)
            => /\ req[s].key = PreloadKeyOf[pair]
               /\ req[s].queries = 0
               /\ req[s].status = 200
               /\ req[s].body = json_loads(req[s].seen.text)


\* C20: a request served from an entry that a request stored receives a
\* body of the structure (field names, nesting, kind of each value) of the
\* body that was sent to the request that stored the entry.
C20_HitHasMissShape ==
    \A s \in Slots :
        (/\ Done(s) /\ req[s].lookup = "ok" /\ req[s].status = 200
         /\ req[s].queries = 0
         /\ req[s].seen.present /\ req[s].seen.sent.kind # "none")
            => ResponseShape(req[s].input, req[s].body) = req[s].seen.sent
\* C21: a request whose query against the source of truth fails, by an
\* exception or by a row that does not validate, ends with status 500 after
\* that one query, has written nothing, and its step leaves the store as it
\* is; a request that has not reached its store write has written nothing.
C21_QueryFailureLeavesStore ==
    [][\A s \in Slots :
          /\ (req[s].pc = "query" /\ req'[s].pc = "done")
                => /\ store' = store
                   /\ req'[s].status = 500
                   /\ req'[s].queries = 1
                   /\ req'[s].writes = 0
                   /\ ~req'[s].written.present
          /\ req'[s].pc \in {"query", "write"} => ~req'[s].written.present]_vars

C21_Witness ==
    \E s \in Slots :
        /\ Done(s) /\ req[s].input.endpoint = "transactions"
        /\ req[s].lookup = "ok" /\ req[s].queries = 1 /\ req[s].status = 500
        /\ req[s].rows.kind = "none"
        /\ req[s].key \notin DOMAIN store

\* C22: a key that is in the store stays in it through every step
\* (handlers, product writes, preload, restart), whatever the step does to
\* its payload, unless its expiration has passed by the end of the step.
C22_NeverDeleted ==
    [][\A k \in DOMAIN store : k \in DOMAIN store' \/ Expired(store[k], now')]_vars

C22_Witness ==
    /\ FindProduct(products, 1) = <<>>
    /\ \E k \in DOMAIN store :
          /\ store[k].ver < mutations
          /\ ~Expired(store[k], now)
          /\ store[k].text.kind = "list"

\* the request carries a period that is not a token of the map
UnrecognizedPeriod(r) ==
    /\ r.endpoint \in {"fact_sales", "product_search", "summary_stats"}
    /\ r.q.period.t = "str" /\ r.q.period.v # <<>>
    /\ r.q.period.v \notin DOMAIN periods_map

\* the time a summary of all periods was computed at, read off its end_date
ComputedAt(rows) == fromisoformat(rows.value[<<"w", "e", "e", "k">>].end_date.v).ts

\* C23: a request to /all, /products/search or /stats/summary whose period
\* is not a token of the map, and which found no live entry, ends with
\* status 200 and the rows or statistics the query of the same request
\* without period yields, from_date and the other parameters being equal.
C23_UnknownPeriodAsNoPeriod ==
    \A s \in Slots :
        (/\ Done(s) /\ req[s].lookup = "ok" /\ ~req[s].seen.present
         /\ UnrecognizedPeriod(req[s].input)
         /\ req[s].writes = 1)
            => /\ req[s].status = 200
               /\ LET r0 == [req[s].input EXCEPT !.q.period = None]
                  IN  IF req[s].input.endpoint = "summary_stats"
                      THEN /\ req[s].rows.kind = "allstats"
                           /\ req[s].rows
                                = SourceRows(r0, products, ComputedAt(req[s].rows))
                      ELSE req[s].rows = SourceRows(r0, products, now)

C25_LastWriterWins ==
    [][\A s \in Slots :
          (req[s].pc = "write" /\ req'[s].pc = "done" /\ req'[s].written.present)
              => /\ DOMAIN store' = DOMAIN store \cup {req[s].key}
                 /\ store'[req[s].key].text = json_dumps(req[s].result)
                 /\ store'[req[s].key].ttl = req'[s].written.ttl
                 /\ store'[req[s].key].exp = now + req'[s].written.ttl
                 /\ \A k \in DOMAIN store \ {req[s].key} : store'[k] = store[k]]_vars

C25_Witness ==
    /\ \A s \in Slots : Done(s) /\ req[s].written.present /\ ~req[s].seen.present
    /\ req[1].key = req[2].key
    /\ req[1].written.text # req[2].written.text
    /\ store[req[1].key].text \in {req[1].written.text, req[2].written.text}

\* C27: no store write replaces the result under a key by a result that
\* was computed before a product write the replaced result was computed
\* after.
C27_NeverBackInTime ==
    [][\A k \in DOMAIN store \cap DOMAIN store' : store'[k].ver >= store[k].ver]_vars

\* the days the tokens stand for
FixedDays ==
    (<<"w","e","e","k">> :> 7) @@ (<<"2","w","e","e","k","s">> :> 14) @@ (<<"m","o","n","t","h">> :> 30) @@ (<<"3","m","o","n","t","h","s">> :> 90)
    @@ (<<"6","m","o","n","t","h","s">> :> 180) @@ (<<"9","m","o","n","t","h","s">> :> 270) @@ (<<"1","y","e","a","r">> :> 365)

\* the time an entry was written at
WrittenAt(e) == e.exp - e.ttl

\* an entry preload has written holds what the handler of the same key
\* computes at the time of the write
PreloadedAsServed(pair, e) ==
    LET r == ClientRequestOf(pair)
    IN  e.text = json_dumps(DumpRows(r, SourceRows(r, products, WrittenAt(e))))

\* C26: the tables of /all, /products/search, /stats/charts and
\* /stats/summary give every token the same number of days (7, 14, 30, 90,
\* 180, 270, 365), the table of preload gives its tokens these days, and an
\* entry preload has written, while preload runs and when a request is
\* served from it, holds what the handler of the same key computes at the
\* time of the write.
C26_SameDaysEverywhere ==
    /\ \A map \in {periods_map, search_periods_map, chart_periods_map, periods} :
          map = FixedDays
    /\ \A period \in DOMAIN preload_periods_map :
          preload_periods_map[period] = FixedDays[period]
    /\ PreloadRunning
          => \A pair \in pre.wrote :
                PreloadKeyOf[pair] \in DOMAIN store
                   => PreloadedAsServed(pair, store[PreloadKeyOf[pair]])
    /\ \A s \in Slots, pair \in PreloadPairs :
          (/\ req[s].seen.present /\ req[s].seen.sent.kind = "none"
           /\ req[s].input = ClientRequestOf(pair))
              => PreloadedAsServed(pair, req[s].seen)

C26_Witness ==
    \E s \in Slots :
        /\ Done(s) /\ req[s].status = 200 /\ req[s].writes = 0
        /\ req[s].seen.present /\ req[s].seen.sent.kind = "none"
        /\ req[s].input.endpoint = "fact_sales"
        /\ req[s].input = ClientRequestOf(<<"table", 1>>)
        /\ req[s].body = req[s].seen.text

\* C28: a request that finds a live entry under its key is served from it
\* at once, without a query and without a store write, and the expiry of an
\* entry moves only when a request that found no live entry, or preload,
\* writes the key.
C28_HitLeavesStore ==
    /\ [](\A s \in Slots :
             (req[s].lookup = "ok" /\ req[s].seen.present)
                => (Done(s) /\ req[s].queries = 0 /\ req[s].writes = 0))
    /\ [][\A k \in DOMAIN store \cap DOMAIN store' :
             store'[k].exp # store[k].exp
                => \/ PreloadRunning
                   \/ \E s \in Slots :
                         /\ req[s].pc = "write" /\ req'[s].pc = "done"
                         /\ req[s].key = k
                         /\ ~req[s].seen.present]_vars

\* C29: every key in the store has a TTL: a positive number of seconds and
\* an expiry that many seconds after a write.
C29_EveryKeyHasTTL ==
    \A k \in DOMAIN store :
        /\ store[k].ttl # NoExpiry /\ store[k].ttl > 0
        /\ store[k].exp # NoExpiry /\ store[k].exp <= now + store[k].ttl

\* the first argument of get_cache_key in the handler of each endpoint
EndpointText ==
    ("fact_sales" :> <<"f","a","c","t","_","s","a","l","e","s">>) @@ ("product_search" :> <<"p","r","o","d","u","c","t","_","s","e","a","r","c","h">>)
    @@ ("products" :> <<"p","r","o","d","u","c","t","s">>) @@ ("users" :> <<"u","s","e","r","s">>)
    @@ ("orders" :> <<"o","r","d","e","r","s">>) @@ ("transactions" :> <<"t","r","a","n","s","a","c","t","i","o","n","s">>)
    @@ ("chart_stats" :> <<"c","h","a","r","t","_","s","t","a","t","s">>) @@ ("summary_stats" :> <<"s","u","m","m","a","r","y","_","s","t","a","t","s">>)

\* key is name, a colon and 32 hexadecimal digits
IsDigestKey(key, name) ==
    /\ Len(key) = Len(name) + 33
    /\ SubSeq(key, 1, Len(name)) = name
    /\ key[Len(name) + 1] = ":"
    /\ \A i \in (Len(name) + 2)..Len(key) :
          \E h \in 1..Len(HexChars) : key[i] = HexChars[h]

\* the key of a request is the name of its endpoint, a colon and a digest,
\* and no token of the period map occurs in it; derived once per request
NoTokenInKey ==
    [r \in ReadInputs |->
        /\ IsDigestKey(KeyOf[r], EndpointText[r.endpoint])
        /\ \A period \in DOMAIN periods_map : ~Contains(KeyOf[r], period)]

\* C30: the key a handler derives is the name of its endpoint, a colon and
\* 32 hexadecimal digits, and no token of the period map (week, 2weeks,
\* month, 3months, 6months, 9months, 1year) occurs in it, whatever period
\* the request carries.
C30_NoTokenInKey ==
    \A s \in Slots :
        req[s].lookup # "none"
            => /\ req[s].key = KeyOf[req[s].input]
               /\ NoTokenInKey[req[s].input]

C30_Witness ==
    \E s \in Slots :
        /\ Done(s) /\ req[s].writes = 1
        /\ req[s].input = Req("chart_stats", [period |-> StrV(<<"6","m","o","n","t","h","s">>)])
        /\ req[s].key \in DOMAIN store
        /\ IsDigestKey(req[s].key, <<"c","h","a","r","t","_","s","t","a","t","s">>)

\* the period of a request does not occur in its key; derived once per
\* request
NoPeriodInKey ==
    [r \in ReadInputs |->
        PeriodOf(r).t = "str" => ~Contains(KeyOf[r], PeriodOf(r).v)]

\* C30 as stated: the period of the request, recognized or not, never
\* occurs in the key.
C30_PeriodNeverInKey ==
    \A s \in Slots : req[s].lookup # "none" => NoPeriodInKey[req[s].input]

\* C31: a step of preload leaves a live entry under the key of a table or
\* summary pair as it is, text and expiry, also when another process that
\* shares the store serves requests while preload runs.
C31_PreloadKeepsLiveEntry ==
    [][\A pair \in PreloadPairs :
          LET key == PreloadKeyOf[pair]
          IN  (/\ pair[1] \in {"table", "summary"}
               /\ redis_get(store, key, now).present
               /\ pre' # pre)
                 => (key \in DOMAIN store' /\ store'[key] = store[key])]_vars

\* C32: the query of a GET /products request that found no live entry,
\* whatever the product write endpoints have committed before, is followed
\* by the dump of every row it returned through ProductSchema; the request
\* does not end at the dump, and once it has stored the listing its status
\* is 200.
C32_AcceptedProductsListable ==
    \A s \in Slots :
        (/\ req[s].input.endpoint = "products"
         /\ req[s].lookup = "ok" /\ req[s].queries = 1
         /\ req[s].rows.kind # "none")
            => /\ req[s].result.kind = "list"
               /\ Len(req[s].result.items) = Len(req[s].rows.items)
               /\ req[s].writes = 1 => req[s].status = 200

\* the request with its limit at the cap
AtCap(r) == [r EXCEPT !.q.limit = IntV(10000)]

C34_InvalidFromDateIgnored ==
    \A s \in Slots :
        (/\ Done(s) /\ req[s].input.endpoint = "fact_sales"
         /\ req[s].lookup = "ok" /\ ~req[s].seen.present
         /\ ~Truthy(req[s].input.q.period)
         /\ Truthy(req[s].input.q.from_date)
         /\ ~fromisoformat(req[s].input.q.from_date.v).ok
         /\ req[s].writes = 1)
            => LET r0 == [req[s].input EXCEPT !.q.from_date = None]
               IN  /\ req[s].status = 200
                   /\ req[s].rows = SourceRows(r0, products, now)
                   /\ req[s].written.present
                   /\ req[s].key = KeyOf[req[s].input]
                   /\ req[s].key # KeyOf[r0]

C34_Witness ==
    \E s \in Slots :
        /\ Done(s) /\ req[s].writes = 1 /\ req[s].status = 200
        /\ req[s].input
              = Req("fact_sales", [FactSalesQ(None, None) EXCEPT !.from_date = StrV(<<"s","o","o","n">>)])
        /\ Len(req[s].rows.items) > 0
        /\ req[s].key \in DOMAIN store

\* a request to /stats/charts whose period is no token of the map
UnrecognizedChart(r) ==
    r.endpoint = "chart_stats" /\ ~InMap(r.q.period, chart_periods_map)

\* C35: a /stats/charts request with a period that is no token of the map
\* computes what the request for "week" computes at the same time, with
\* its own period in the payload, and stores it under its own key, not the
\* key of "week", with TTL 600; it ends with status 200.
C35_ChartDefaultsToWeek ==
    /\ [](\A s \in Slots :
             (UnrecognizedChart(req[s].input) /\ req[s].lookup = "ok")
                => /\ req[s].key = KeyOf[req[s].input]
                   /\ req[s].key # KeyOf[Req("chart_stats", [period |-> StrV(<<"w","e","e","k">>)])]
                   /\ req[s].rows.kind # "none"
                         => req[s].rows.value.period = req[s].input.q.period
                   /\ req[s].writes = 1
                         => /\ req[s].status = 200
                            /\ req[s].written.ttl = 600
                            /\ req[s].written.text = json_dumps(req[s].rows))
    /\ [][\A s \in Slots :
             (/\ UnrecognizedChart(req[s].input)
              /\ req[s].pc = "query" /\ req'[s].pc = "write")
                => req'[s].rows
                      = DictPayload([get_chart_stats_query([period |-> StrV(<<"w","e","e","k">>)], now)
                                        EXCEPT !.period = req[s].input.q.period])]_vars

C35_Witness ==
    \E s \in Slots :
        /\ Done(s) /\ req[s].writes = 1 /\ req[s].status = 200
        /\ req[s].input = Req("chart_stats", [period |-> StrV(<<"d","e","c","a","d","e">>)])
        /\ req[s].rows.value.revenue_by_day # <<>>
        /\ req[s].key \in DOMAIN store /\ store[req[s].key].ttl = 600

\* C36: the session of a request is open while its handler runs and
\* closed when the request has ended, with a result or with an error;
\* preload's session is open while preload runs and closed when it has
\* ended; and a session that is open is closed at some later time.
C36_SessionsClosed ==
    /\ [](\A s \in Slots :
             /\ req[s].pc \in {"query", "write"} => req[s].db = "open"
             /\ Done(s) => req[s].db = "closed")
    /\ [](/\ PreloadRunning => pre.db = "open"
          /\ pre.pc = "done" => pre.db = "closed")
    /\ \A s \in Slots : (req[s].db = "open") ~> (req[s].db = "closed")
    /\ (pre.db = "open") ~> (pre.db = "closed")

C36_Witness ==
    /\ pre.pc = "done" /\ pre.db = "closed" /\ pre.caught = "outer"
    /\ \E s \in Slots :
          /\ Done(s) /\ req[s].status = 500 /\ req[s].queries = 1
          /\ req[s].db = "closed"

\* C37: a step of update_product that changes the table changes, in the
\* row with the id of the request, the fields of the body to the values of
\* the body and nothing else, and changes no other row and not the number
\* of rows; update_product and delete_product answer 404 exactly when no
\* row has the id, and a step that ends with a 404 response leaves the
\* table and the id counter as they were.
C37_WritesTouchOnlyTheirTarget ==
    [][/\ (products' # products /\ resp'.op = "update")
            => /\ resp'.status # 404
               /\ resp'.product_id \in ProductIds
               /\ Len(products') = Len(products)
               /\ next_product_id' = next_product_id
               /\ \E body \in UpdateBodies :
                      \A i \in 1..Len(products) :
                          IF products[i].product_id = resp'.product_id
                          THEN /\ DOMAIN products'[i] = DOMAIN products[i]
                               /\ \A f \in DOMAIN products[i] :
                                      products'[i][f] = IF f \in DOMAIN body THEN body[f]
                                                        ELSE products[i][f]
                          ELSE products'[i] = products[i]
       /\ (resp' # resp /\ resp'.op \in {"update", "delete"})
            => (resp'.status = 404 <=> resp'.product_id \notin ProductIds)
       /\ resp'.status = 404 => UNCHANGED <<products, next_product_id>>]_vars

C37_Witness ==
    /\ resp = Response("delete", next_product_id, 404)
    /\ mutations = 1
    /\ products = [TwoProducts EXCEPT ![1].price = 990, ![1].category = <<"h","a","t","s">>]

\* C38: a set_to_cache call whose key contains one of 6months, 9months and
\* 1year hands setex a TTL of 86400 seconds, and the entry is stored with
\* it, whatever expire the caller gave and although the key may contain
\* the medium token "month" as well.
C38_LongRuleFirst ==
    (call.phase = "stored" /\ \E period \in LongPeriods : Contains(call.cache_key, period))
        => /\ call.ttl = 86400
           /\ call.cache_key \in DOMAIN store
           /\ store[call.cache_key].ttl = 86400

C38_Witness ==
    /\ call.phase = "stored" /\ call.given /\ call.expire = 60
    /\ call.cache_key = <<"c","h","a","r","t","_","s","t","a","t","s",":","9","m","o","n","t","h","s">>
    /\ Contains(call.cache_key, <<"m","o","n","t","h">>)
    /\ store[call.cache_key].ttl = 86400
====
